---- MODULE Spec2Model ----
(***************************************************************************)
(* Model of the signing / verification core of gopay:                      *)
(*   gopay/utils/signer.py   strategies, SignerFactory, sign_params,       *)
(*                           verify_params                                 *)
(*   gopay/alipay/client.py, gopay/wechat/client.py                        *)
(*                           _verify_response, verify_notify               *)
(*   gopay/notify.py         NotifyHandler.verify                          *)
(*                                                                         *)
(* Python str values are sequences of code points, so that sorting,        *)
(* upper(), substring tests and concatenation are computed, not assumed.   *)
(* Digests (MD5, HMAC-SHA256, RSA PKCS#1 v1.5) are ideal: the digest text  *)
(* is a term over the algorithm, the key and the message, and two digests  *)
(* are the same text exactly when the terms are equal.                     *)
(***************************************************************************)
EXTENDS Integers, Sequences, FiniteSets, TLC

VARIABLES
    signers,     \* SignerFactory._signers: upper-cased identifier -> instance
    regs,        \* history of register_signer calls (ghost)
    got,         \* outcome of the last get_signer call, with its argument
    params,      \* the caller's parameter dict, in insertion order
    key,         \* credential passed to sign / configured on the client
    sign_type,   \* algorithm identifier passed by the caller
    pc,          \* position of the caller's scenario
    call,        \* first sign call: canonical string and outcome
    call2,       \* repeated sign call on a re-ordered dict
    signed,      \* the dict as it was when it was signed (ghost)
    tamper,      \* what was changed after signing (ghost)
    vkey,        \* credential passed to the verify call
    result,      \* outcome of the verify call
    inst,        \* strategy instance under direct test / held by a client
    data,        \* data string passed to a strategy
    claimed,     \* claimed signature passed to a verifier
    client,      \* which client / handler class is in use
    resp,        \* outcome of _verify_response
    notif,       \* outcome of verify_notify / NotifyHandler.verify
    raw_data,    \* raw notification handed to NotifyProcessor.process
    callback,    \* how the business callback behaves (or that there is none)
    runs,        \* one record per NotifyProcessor.process call, oldest first
    threads,     \* concurrent callers of the signing core: call, position, locals
    configs,     \* ConfigManager._configs, in insertion order
    cfg_hist,    \* history of ConfigManager register / remove calls (ghost)
    cfg_got,     \* the last ConfigManager call and its outcome
    body,        \* a BodyMap: inherited dict content and _ordered_data
    body_got,    \* the last BodyMap call, the BodyMap before it, its outcome
    http_resp,   \* what the provider answers to the request a client sends
    dr,          \* outcome of a client's _do_request / interface method call
    hc,          \* an HttpClient.request call in progress
    now,         \* time.time()
    limiter,     \* a RateLimiter: its parameters and _requests
    chain,       \* MiddlewareChain._middlewares, in the order added
    mw_log,      \* the calls made through the middlewares, oldest first
    hooks,       \* BaseApiHandler._hooks
    hook_run,    \* the last _execute_with_hooks call: its events and outcome
    calls,       \* the method calls and requests of the last client call, oldest first
    frame        \* the method call a client is about to enter, NoCall if none

\* the variables of the signing core, the clients and the handlers
core == <<signers, regs, got, params, key, sign_type, pc, call, call2, signed,
          tamper, vkey, result, inst, data, claimed, client, resp, notif>>

\* the variables of the notification processor, the concurrent callers,
\* the configuration manager and the BodyMap
ext == <<raw_data, callback, runs, threads, configs, cfg_hist, cfg_got, body, body_got>>

\* the variables of the HTTP layer and of the api package
ext2 == <<http_resp, dr, hc, now, limiter, chain, mw_log, hooks, hook_run, calls, frame>>

vars == <<core, ext, ext2>>

(***************************************************************************)
(* Bounds of the model.                                                    *)
(***************************************************************************)
MaxParams == 2          \* entries in a parameter dict
MaxRegistrations == 2   \* register_signer calls in one run
MaxProcess == 2         \* NotifyProcessor.process calls on one notification
MaxThreads == 2         \* concurrent callers of the signing core
MaxConfigCalls == 3     \* ConfigManager register / remove calls in one run
MaxBodyCalls == 3       \* BodyMap calls that change it, in one run

(***************************************************************************)
(* String literals of the source, as code points.                          *)
(***************************************************************************)
S_sign == <<115, 105, 103, 110>>               \* "sign"
S_amp == <<38>>                                \* "&"
S_eq == <<61>>                                 \* "="
S_keysep == <<38, 107, 101, 121, 61>>          \* "&key="
S_None == <<78, 111, 110, 101>>                \* "None"
S_True == <<84, 114, 117, 101>>                \* "True"
S_False == <<70, 97, 108, 115, 101>>           \* "False"
S_BEGIN == <<45, 45, 45, 45, 45, 66, 69, 71, 73, 78>>  \* "-----BEGIN"
PrivHeader == <<45, 45, 45, 45, 45, 66, 69, 71, 73, 78, 32, 82, 83, 65, 32, 80, 82, 73, 86, 65, 84, 69, 32, 75, 69, 89, 45, 45, 45, 45, 45, 10>>
PrivFooter == <<10, 45, 45, 45, 45, 45, 69, 78, 68, 32, 82, 83, 65, 32, 80, 82, 73, 86, 65, 84, 69, 32, 75, 69, 89, 45, 45, 45, 45, 45>>
PubHeader == <<45, 45, 45, 45, 45, 66, 69, 71, 73, 78, 32, 80, 85, 66, 76, 73, 67, 32, 75, 69, 89, 45, 45, 45, 45, 45, 10>>
PubFooter == <<10, 45, 45, 45, 45, 45, 69, 78, 68, 32, 80, 85, 66, 76, 73, 67, 32, 75, 69, 89, 45, 45, 45, 45, 45>>
N_MD5 == <<77, 68, 53>>                        \* "MD5"
N_md5 == <<109, 100, 53>>                      \* "md5"
N_HMAC == <<72, 77, 65, 67, 45, 83, 72, 65, 50, 53, 54>>  \* "HMAC-SHA256"
N_RSA == <<82, 83, 65>>                        \* "RSA"
N_RSA2 == <<82, 83, 65, 50>>                   \* "RSA2"
N_NOPE == <<78, 79, 84, 95, 65, 95, 82, 69, 65, 76, 95, 65, 76, 71, 79>>  \* "NOT_A_REAL_ALGO"
N_SHA1 == <<83, 72, 65, 49>>                   \* "SHA1"
N_ALIPAY == <<65, 76, 73, 80, 65, 89>>          \* "ALIPAY"
N_WECHAT == <<87, 69, 67, 72, 65, 84>>          \* "WECHAT"
N_QQ == <<81, 81>>                              \* "QQ"
N_SHA256 == <<83, 72, 65, 50, 53, 54>>         \* "SHA256"

(***************************************************************************)
(* Inputs the scenarios draw from.                                         *)
(***************************************************************************)
F_a == <<97>>                                  \* field name "a"
F_B == <<66>>                                  \* field name "B"
V_0 == <<48>>                                  \* value "0"
K_k1 == <<107, 49>>                            \* secret "k1"
W_wrong == <<119, 114, 111, 110, 103, 95, 115, 105, 103, 110>>  \* "wrong_sign"
D_abc == <<97, 98, 99>>                        \* data "abc"
B_privA == <<80, 65>>                          \* base64 body of private key A
B_pubA == <<85, 65>>                           \* base64 body of public key A
B_pubB == <<85, 66>>                           \* base64 body of public key B

(***************************************************************************)
(* Python values: None, str, int, bool.  A digest is a str whose text is   *)
(* the hex or base64 rendering of an ideal digest; form says whether the   *)
(* text is as produced ("asis"), has one character replaced ("flip"), or   *)
(* has its last base64 character replaced by one that differs only in the  *)
(* bits base64 decoding discards ("slack").                                *)
(***************************************************************************)
None_ == [t |-> "none"]
PyStr(s) == [t |-> "str", s |-> s]
PyInt(n) == [t |-> "int", n |-> n]
PyBool(b) == [t |-> "bool", b |-> b]
Digest(alg, k, msg) == [t |-> "digest", alg |-> alg, k |-> k, msg |-> msg, form |-> "asis"]

Ret(v) == [kind |-> "ret", val |-> v]
Raise(exc, st) == [kind |-> "raise", exc |-> exc, sign_type |-> st]
NoCall == [kind |-> "none"]
NoSign == [param_str |-> <<>>, out |-> NoCall]

\* Python's a == b on the values that meet in the modelled code (one side is
\* always None or a str, so the int/bool coercion never applies).
PyEq(a, b) == a.t = b.t /\ a = b

\* bool(v): truthiness, as used by "if not x".
Truthy(v) ==
    CASE v.t = "none" -> FALSE
      [] v.t = "str" -> v.s # <<>>
      [] v.t = "int" -> v.n # 0
      [] v.t = "bool" -> v.b
      [] OTHER -> TRUE

RECURSIVE Digits(_)
Digits(n) == IF n < 10 THEN <<48 + n>> ELSE Digits(n \div 10) \o <<48 + (n % 10)>>

\* f"{v}" for the values that reach an f-string.
Format(v) ==
    CASE v.t = "none" -> S_None
      [] v.t = "str" -> v.s
      [] v.t = "int" -> IF v.n < 0 THEN <<45>> \o Digits(-v.n) ELSE Digits(v.n)
      [] v.t = "bool" -> IF v.b THEN S_True ELSE S_False

\* str.upper() on ASCII text.
RECURSIVE Upper(_)
Upper(s) ==
    IF s = <<>> THEN <<>>
    ELSE <<IF Head(s) >= 97 /\ Head(s) <= 122 THEN Head(s) - 32 ELSE Head(s)>>
         \o Upper(Tail(s))

\* sub in s
Contains(sub, s) ==
    \E i \in 1..(Len(s) - Len(sub) + 1) : SubSeq(s, i, i + Len(sub) - 1) = sub

\* a < b on str: code point by code point, a proper prefix first.
StrLess(a, b) ==
    \E i \in 1..(Len(b)) :
        /\ \A j \in 1..(i - 1) : j <= Len(a) /\ a[j] = b[j]
        /\ \/ i > Len(a)
           \/ i <= Len(a) /\ a[i] < b[i]

(***************************************************************************)
(* Parameter dicts: a sequence of entries with distinct keys, in insertion *)
(* order.                                                                  *)
(***************************************************************************)
Entry(k, v) == [k |-> k, v |-> v]
HasKey(d, k) == \E i \in 1..Len(d) : d[i].k = k
Lookup(d, k) == d[CHOOSE i \in 1..Len(d) : d[i].k = k].v
\* d[k] = v : replaces in place, or appends
DictSet(d, k, v) ==
    IF HasKey(d, k)
    THEN [i \in 1..Len(d) |-> IF d[i].k = k THEN Entry(k, v) ELSE d[i]]
    ELSE Append(d, Entry(k, v))

(***************************************************************************)
(* The cryptography library at its boundary: which PEM texts load as which *)
(* key.  Key pair A has private body B_privA and public body B_pubA; B_pubB*)
(* is the public key of another pair.  Any other text fails to load.  A    *)
(* loaded key is named by its pair, <<65>> ("A") or <<66>> ("B"); NoKey is *)
(* the outcome of a load that raises.                                      *)
(***************************************************************************)
NoKey == <<>>
PairA == <<65>>
PairB == <<66>>
PrivPemA == PrivHeader \o B_privA \o PrivFooter
PubPemA == PubHeader \o B_pubA \o PubFooter
PubPemB == PubHeader \o B_pubB \o PubFooter

\* serialization.load_pem_private_key(text): the pair, or NoKey (it raises)
load_pem_private_key(text) ==
    IF text = PrivHeader \o B_privA \o PrivFooter THEN PairA ELSE NoKey

\* serialization.load_pem_public_key(text): the pair, or NoKey (it raises)
load_pem_public_key(text) ==
    IF text = PubHeader \o B_pubA \o PubFooter THEN PairA
    ELSE IF text = PubHeader \o B_pubB \o PubFooter THEN PairB
    ELSE NoKey

(***************************************************************************)
(* Strategy instances.  oid is the object identity.                        *)
(***************************************************************************)
MD5Signer(oid) == [cls |-> "MD5Signer", algorithm |-> <<>>, oid |-> oid]
HMACSHA256Signer(oid) == [cls |-> "HMACSHA256Signer", algorithm |-> <<>>, oid |-> oid]
RSASigner(algorithm, oid) == [cls |-> "RSASigner", algorithm |-> algorithm, oid |-> oid]

\* RSASigner.__init__: self.hash_alg
hash_alg(self) == IF self.algorithm = N_RSA THEN N_SHA1 ELSE N_SHA256

\* MD5Signer.sign
MD5Signer_sign(data_, key_) ==
    LET sign_str == data_ \o S_keysep \o Format(key_)
    IN  Ret(Digest(N_MD5, <<>>, sign_str))

\* HMACSHA256Signer.sign: key.encode raises on None, re-raised as SignError
HMACSHA256Signer_sign(data_, key_) ==
    LET sign_str == data_ \o S_keysep \o Format(key_)
    IN  IF key_.t # "str"
        THEN Raise("SignError", PyStr(N_HMAC))
        ELSE Ret(Digest(N_HMAC, key_.s, sign_str))

\* RSASigner._load_private_key: the pair, or NoKey (SignError)
RSASigner_load_private_key(key_) ==
    IF key_.t # "str" THEN NoKey
    ELSE LET text == IF ~Contains(S_BEGIN, key_.s)
                     THEN PrivHeader \o key_.s \o PrivFooter
                     ELSE key_.s
         IN  load_pem_private_key(text)

\* RSASigner._load_public_key: the pair, or NoKey (SignError)
RSASigner_load_public_key(key_) ==
    IF key_.t # "str" THEN NoKey
    ELSE LET text == IF ~Contains(S_BEGIN, key_.s)
                     THEN PubHeader \o key_.s \o PubFooter
                     ELSE key_.s
         IN  load_pem_public_key(text)

\* RSASigner.sign
RSASigner_sign(self, data_, key_) ==
    LET private_key == RSASigner_load_private_key(key_)
    IN  IF private_key = NoKey
        THEN Raise("SignError", PyStr(self.algorithm))
        ELSE Ret(Digest(hash_alg(self), private_key, data_))

\* MD5Signer.verify
MD5Signer_verify(data_, signature, key_) ==
    LET calculated_sign == MD5Signer_sign(data_, key_)
    IN  IF calculated_sign.kind = "raise" THEN calculated_sign
        ELSE Ret(PyBool(PyEq(calculated_sign.val, signature)))

\* HMACSHA256Signer.verify
HMACSHA256Signer_verify(data_, signature, key_) ==
    LET calculated_sign == HMACSHA256Signer_sign(data_, key_)
    IN  IF calculated_sign.kind = "raise" THEN calculated_sign
        ELSE Ret(PyBool(PyEq(calculated_sign.val, signature)))

\* RSASigner.verify without the check against the key: any loadable public
\* key accepts a well-formed signature of the data
RSASigner_verify_anykey(self, data_, signature, key_) ==
    LET public_key == RSASigner_load_public_key(key_)
    IN  IF public_key = NoKey THEN Ret(PyBool(FALSE))
        ELSE IF signature.t # "digest" THEN Ret(PyBool(FALSE))
        ELSE Ret(PyBool(/\ signature.form \in {"asis", "slack"}
                      /\ signature.alg = hash_alg(self)
                      /\ signature.msg = data_))

\* RSASigner.verify: every exception inside is caught and gives False.
\* base64.b64decode drops the bits of the last character that carry no data,
\* so the "slack" form decodes to the same bytes as the text as produced.
RSASigner_verify(self, data_, signature, key_) ==
    LET public_key == RSASigner_load_public_key(key_)
    IN  IF public_key = NoKey THEN Ret(PyBool(FALSE))
        ELSE IF signature.t # "digest" THEN Ret(PyBool(FALSE))
        ELSE Ret(PyBool(/\ signature.form \in {"asis", "slack"}
                      /\ signature.alg = hash_alg(self)
                      /\ signature.k = public_key
                      /\ signature.msg = data_))

\* signer.sign(data, key), dispatched on the instance's class
Signer_sign(self, data_, key_) ==
    CASE self.cls = "MD5Signer" -> MD5Signer_sign(data_, key_)
      [] self.cls = "HMACSHA256Signer" -> HMACSHA256Signer_sign(data_, key_)
      [] self.cls = "RSASigner" -> RSASigner_sign(self, data_, key_)

\* signer.verify(data, signature, key), dispatched on the instance's class
Signer_verify(self, data_, signature, key_) ==
    CASE self.cls = "MD5Signer" -> MD5Signer_verify(data_, signature, key_)
      [] self.cls = "HMACSHA256Signer" -> HMACSHA256Signer_verify(data_, signature, key_)
      [] self.cls = "RSASigner" -> RSASigner_verify(self, data_, signature, key_)

(***************************************************************************)
(* SignerFactory                                                           *)
(***************************************************************************)
\* SignerFactory._signers as the class body builds it
BuiltinSigners ==
    (N_MD5 :> MD5Signer(1)) @@ (N_HMAC :> HMACSHA256Signer(2))
    @@ (N_RSA :> RSASigner(N_RSA, 3)) @@ (N_RSA2 :> RSASigner(N_RSA2, 4))

\* SignerFactory.get_signer
get_signer(reg, sign_type_) ==
    LET sign_type_upper == Upper(sign_type_)
    IN  IF sign_type_upper \notin DOMAIN reg
        THEN Raise("SignError", PyStr(sign_type_))
        ELSE Ret(reg[sign_type_upper])

\* (mutant) the identifier stored as given, without upper()
register_signer_noupper(reg, sign_type_, signer) ==
    [x \in DOMAIN reg \cup {sign_type_} |->
        IF x = sign_type_ THEN signer ELSE reg[x]]

\* SignerFactory.register_signer: the registry afterwards
register_signer(reg, sign_type_, signer) ==
    [x \in DOMAIN reg \cup {Upper(sign_type_)} |->
        IF x = Upper(sign_type_) THEN signer ELSE reg[x]]

(***************************************************************************)
(* sign_params / verify_params                                             *)
(***************************************************************************)
\* (mutant) the filter written as a truthiness test: if v and k != "sign"
Kept_truthy(e) == Truthy(e.v) /\ e.k # S_sign

\* the condition of the dict comprehension: v not in [None, ""] and k != "sign"
Kept(e) == ~(PyEq(e.v, None_) \/ PyEq(e.v, PyStr(<<>>))) /\ e.k # S_sign

\* (mutant) the sort left out
Sorted_identity(items) == items

\* sorted(items): ascending by key (keys are distinct, values never compared)
RECURSIVE Sorted(_)
Sorted(items) ==
    IF items = <<>> THEN <<>>
    ELSE LET rest == Sorted(Tail(items))
             x == Head(items)
             n == Cardinality({i \in 1..Len(rest) : StrLess(rest[i].k, x.k)})
         IN  SubSeq(rest, 1, n) \o <<x>> \o SubSeq(rest, n + 1, Len(rest))

\* "&".join(parts)
RECURSIVE Join(_)
Join(parts) ==
    IF parts = <<>> THEN <<>>
    ELSE IF Len(parts) = 1 THEN parts[1]
    ELSE parts[1] \o S_amp \o Join(Tail(parts))

\* the canonical string: filter, sort, render name=value, join
ParamStr(params_) ==
    LET filtered_params == SelectSeq(params_, Kept)
        sorted_params == Sorted(filtered_params)
    IN  Join([i \in 1..Len(sorted_params) |->
                sorted_params[i].k \o S_eq \o Format(sorted_params[i].v)])

\* sign_params
sign_params(reg, params_, key_, sign_type_) ==
    LET param_str == ParamStr(params_)
        signer == get_signer(reg, sign_type_)
    IN  IF signer.kind = "raise" THEN signer
        ELSE Signer_sign(signer.val, param_str, key_)

\* (mutant) the comparison left out: any signature is accepted
verify_params_nocompare(reg, params_, key_, sign_type_) ==
    IF ~HasKey(params_, S_sign) THEN Ret(PyBool(FALSE))
    ELSE LET calculated_sign == sign_params(reg, params_, key_, sign_type_)
         IN  IF calculated_sign.kind = "raise" THEN calculated_sign
             ELSE Ret(PyBool(TRUE))

\* verify_params
verify_params(reg, params_, key_, sign_type_) ==
    IF ~HasKey(params_, S_sign) THEN Ret(PyBool(FALSE))
    ELSE LET signature == Lookup(params_, S_sign)
             calculated_sign == sign_params(reg, params_, key_, sign_type_)
         IN  IF calculated_sign.kind = "raise" THEN calculated_sign
             ELSE Ret(PyBool(PyEq(signature, calculated_sign.val)))

\* verify_sign(content, signature, key, sign_type): resolves the strategy
\* and calls its verify
verify_sign(reg, content, signature, key_, sign_type_) ==
    LET signer == get_signer(reg, sign_type_)
    IN  IF signer.kind = "raise" THEN signer
        ELSE Signer_verify(signer.val, content, signature, key_)

(***************************************************************************)
(* Clients and notify handlers.  self_signer is the strategy the instance  *)
(* resolved in __init__; the credential is the one its configuration       *)
(* holds (no key file is configured).                                      *)
(***************************************************************************)
\* AlipayConfig.get_alipay_public_key, alipay_public_key_path unset
get_alipay_public_key(alipay_public_key) ==
    IF Truthy(alipay_public_key) THEN alipay_public_key ELSE None_

\* AlipayClient._verify_response
AlipayClient_verify_response(self_signer, alipay_public_key, params_, sign) ==
    LET public_key == get_alipay_public_key(alipay_public_key)
    IN  IF ~Truthy(public_key) THEN Ret(PyBool(TRUE))
        ELSE Signer_verify(self_signer, ParamStr(params_), sign, public_key)

\* AlipayClient.verify_notify
AlipayClient_verify_notify(self_signer, alipay_public_key, data_, signature) ==
    LET public_key == get_alipay_public_key(alipay_public_key)
    IN  IF ~Truthy(public_key) THEN Ret(PyBool(FALSE))
        ELSE Signer_verify(self_signer, ParamStr(data_), signature, public_key)

\* WechatClient._verify_response
WechatClient_verify_response(self_signer, api_key, params_, sign) ==
    IF ~Truthy(api_key) THEN Ret(PyBool(TRUE))
    ELSE LET calculated_sign == Signer_sign(self_signer, ParamStr(params_), api_key)
         IN  IF calculated_sign.kind = "raise" THEN calculated_sign
             ELSE Ret(PyBool(PyEq(calculated_sign.val, sign)))

\* WechatClient.verify_notify
WechatClient_verify_notify(self_signer, api_key, data_, signature) ==
    IF ~Truthy(api_key) THEN Ret(PyBool(FALSE))
    ELSE WechatClient_verify_response(self_signer, api_key, data_, signature)

\* AlipayConfig.get_app_private_key, app_private_key_path unset
get_app_private_key(app_private_key) ==
    IF Truthy(app_private_key) THEN app_private_key ELSE None_

\* AlipayClient._sign_request
AlipayClient_sign_request(self_signer, app_private_key, params_) ==
    LET param_str == ParamStr(params_)
        private_key == get_app_private_key(app_private_key)
    IN  IF ~Truthy(private_key) THEN Raise("SignError", PyStr(N_ALIPAY))
        ELSE Signer_sign(self_signer, param_str, private_key)

\* WechatClient._sign_params
WechatClient_sign_params(self_signer, api_key, params_) ==
    IF ~Truthy(api_key) THEN Raise("SignError", PyStr(N_WECHAT))
    ELSE Signer_sign(self_signer, ParamStr(params_), api_key)

\* AlipayNotifyHandler.verify: any exception gives False
AlipayNotifyHandler_verify(self_signer, public_key, data_, signature) ==
    LET r == Signer_verify(self_signer, ParamStr(data_), signature, public_key)
    IN  IF r.kind = "raise" THEN Ret(PyBool(FALSE)) ELSE r

\* WechatNotifyHandler.verify: any exception gives False
WechatNotifyHandler_verify(self_signer, api_key, data_, signature) ==
    LET calculated_sign == Signer_sign(self_signer, ParamStr(data_), api_key)
    IN  IF calculated_sign.kind = "raise" THEN Ret(PyBool(FALSE))
        ELSE Ret(PyBool(PyEq(calculated_sign.val, signature)))

\* QQNotifyHandler.verify: any exception gives False
QQNotifyHandler_verify(self_signer, api_key, data_, signature) ==
    LET calculated_sign == Signer_sign(self_signer, ParamStr(data_), api_key)
    IN  IF calculated_sign.kind = "raise" THEN Ret(PyBool(FALSE))
        ELSE Ret(PyBool(PyEq(calculated_sign.val, signature)))

(***************************************************************************)
(* Input domains.                                                          *)
(***************************************************************************)
FieldNames == {F_a, F_B, S_sign}
FieldValues == {None_, PyStr(<<>>), PyStr(V_0), PyInt(0), PyBool(FALSE)}
Creds == {None_, PyStr(<<>>), PyStr(K_k1), PyStr(PrivPemA), PyStr(PubPemA)}
SignTypes == {N_MD5, N_md5, N_HMAC, N_RSA, N_RSA2, N_NOPE}

DistinctKeys(d) == \A i, j \in 1..Len(d) : d[i].k = d[j].k => i = j

\* dicts of at most MaxParams entries, in every insertion order
ParamDicts ==
    UNION {{d \in [1..n -> {Entry(k, v) : k \in FieldNames, v \in FieldValues}] :
                DistinctKeys(d)} : n \in 0..MaxParams}

\* the same entries inserted in another order
Reorderings(d) ==
    {[i \in 1..Len(d) |-> d[f[i]]] :
        f \in {g \in [1..Len(d) -> 1..Len(d)] : \A i, j \in 1..Len(d) : g[i] = g[j] => i = j}}

\* an entry the caller has filled in
Populated(e) == e.v \notin {None_, PyStr(<<>>)} /\ e.k # S_sign

\* dicts with the same populated entries: re-ordered, or with the empty ones left out
Variants(d) == Reorderings(d) \cup Reorderings(SelectSeq(d, Populated))

SessionIdle ==
    /\ params = <<>> /\ key = None_ /\ sign_type = <<>>
    /\ call = NoSign /\ call2 = NoSign /\ signed = <<>> /\ tamper = "none"
    /\ vkey = None_ /\ result = NoCall
StrategyIdle == inst = NoCall /\ data = <<>> /\ claimed = None_
ClientIdle == client = "none" /\ resp = NoCall /\ notif = NoCall
RegistryIdle == signers = BuiltinSigners /\ regs = <<>> /\ got = NoCall
NotifyIdle == raw_data = None_ /\ callback = "absent" /\ runs = <<>>
ThreadsIdle == threads = <<>>
ConfigIdle == configs = <<>> /\ cfg_hist = <<>> /\ cfg_got = NoCall
BodyIdle == body = <<>> /\ body_got = NoCall
ExtIdle == NotifyIdle /\ ThreadsIdle /\ ConfigIdle /\ BodyIdle
Ext2Idle ==
    /\ http_resp = NoCall /\ dr = NoCall /\ hc = NoCall /\ now = 0
    /\ limiter = NoCall /\ chain = <<>> /\ mw_log = <<>>
    /\ hooks = <<>> /\ hook_run = NoCall /\ calls = <<>> /\ frame = NoCall

(***************************************************************************)
(* Spec: a caller signs a parameter dict with sign_params, stores the      *)
(* signature under "sign", and the receiver checks it with verify_params.  *)
(* Between the two the dict may be re-ordered or changed.                  *)
(***************************************************************************)
Init ==
    /\ RegistryIdle /\ StrategyIdle /\ ClientIdle /\ ExtIdle /\ Ext2Idle
    /\ params \in ParamDicts
    /\ key \in Creds
    /\ sign_type \in SignTypes
    /\ pc = "start"
    /\ call = NoSign /\ call2 = NoSign /\ signed = <<>> /\ tamper = "none"
    /\ vkey = None_ /\ result = NoCall

\* signature = sign_params(params, key, sign_type)
SignParams ==
    /\ pc = "start"
    /\ call' = [param_str |-> ParamStr(params),
                out |-> sign_params(signers, params, key, sign_type)]
    /\ signed' = params
    /\ pc' = "signed"
    /\ UNCHANGED ext
    /\ UNCHANGED ext2
    /\ UNCHANGED <<signers, regs, got, params, key, sign_type, call2, tamper,
                   vkey, result, inst, data, claimed, client, resp, notif>>

\* the same populated entries, inserted in another order, signed again
SignAgain(q) ==
    /\ pc = "signed"
    /\ call2' = [param_str |-> ParamStr(q),
                 out |-> sign_params(signers, q, key, sign_type)]
    /\ params' = q
    /\ pc' = "resigned"
    /\ UNCHANGED ext
    /\ UNCHANGED ext2
    /\ UNCHANGED <<signers, regs, got, key, sign_type, call, signed, tamper,
                   vkey, result, inst, data, claimed, client, resp, notif>>

\* params["sign"] = signature
AttachSign ==
    /\ pc = "signed"
    /\ call.out.kind = "ret"
    /\ params' = DictSet(params, S_sign, call.out.val)
    /\ pc' = "attached"
    /\ UNCHANGED ext
    /\ UNCHANGED ext2
    /\ UNCHANGED <<signers, regs, got, key, sign_type, call, call2, signed,
                   tamper, vkey, result, inst, data, claimed, client, resp, notif>>

\* one character of the stored signature is replaced
TamperSign(form) ==
    /\ pc = "attached"
    /\ params' = DictSet(params, S_sign, [Lookup(params, S_sign) EXCEPT !.form = form])
    /\ tamper' = "sign"
    /\ pc' = "tampered"
    /\ UNCHANGED ext
    /\ UNCHANGED ext2
    /\ UNCHANGED <<signers, regs, got, key, sign_type, call, call2, signed,
                   vkey, result, inst, data, claimed, client, resp, notif>>

\* the value of one field other than "sign" is replaced by another value
TamperField(k, v) ==
    /\ pc = "attached"
    /\ k # S_sign
    /\ HasKey(params, k)
    /\ v # Lookup(params, k)
    /\ params' = DictSet(params, k, v)
    /\ tamper' = "field"
    /\ pc' = "tampered"
    /\ UNCHANGED ext
    /\ UNCHANGED ext2
    /\ UNCHANGED <<signers, regs, got, key, sign_type, call, call2, signed,
                   vkey, result, inst, data, claimed, client, resp, notif>>

\* verify_params(params, vk, sign_type)
VerifyParams(vk) ==
    /\ pc \in {"start", "attached", "tampered"}
    /\ result' = verify_params(signers, params, vk, sign_type)
    /\ vkey' = vk
    /\ pc' = "verified"
    /\ UNCHANGED ext
    /\ UNCHANGED ext2
    /\ UNCHANGED <<signers, regs, got, params, key, sign_type, call, call2,
                   signed, tamper, inst, data, claimed, client, resp, notif>>

Next ==
    \/ SignParams
    \/ \E q \in Variants(params) : SignAgain(q)
    \/ AttachSign
    \/ \E form \in {"flip", "slack"} : TamperSign(form)
    \/ \E k \in FieldNames, v \in FieldValues : TamperField(k, v)
    \/ \E vk \in Creds : VerifyParams(vk)

Spec == Init /\ [][Next]_vars

(***************************************************************************)
(* SpecStrategy: a strategy instance used directly, as the tests do:       *)
(* signer.sign(data, key), then signer.verify(data, signature, key).       *)
(***************************************************************************)
B_pubBare == PyStr(B_pubB)
B_privBare == PyStr(B_privA)
StrategyCreds == Creds \cup {PyStr(PubPemB), B_pubBare, B_privBare}
StrategyData == {<<>>, D_abc}
BuiltinInstances == {BuiltinSigners[x] : x \in DOMAIN BuiltinSigners}

\* the signatures a caller may present: None, "", a wrong text, and the
\* signature just produced, as it is or with one character replaced
Presented(out) ==
    {None_, PyStr(<<>>), PyStr(W_wrong)}
    \cup (IF out.kind = "ret"
          THEN {[out.val EXCEPT !.form = f] : f \in {"asis", "flip", "slack"}}
          ELSE {})

InitStrategy ==
    /\ RegistryIdle /\ ClientIdle /\ ExtIdle /\ Ext2Idle
    /\ params = <<>> /\ sign_type = <<>> /\ signed = <<>> /\ tamper = "none"
    /\ call = NoSign /\ call2 = NoSign /\ vkey = None_ /\ result = NoCall
    /\ claimed = None_
    /\ inst \in BuiltinInstances
    /\ data \in StrategyData
    /\ key \in StrategyCreds
    /\ pc = "start"

\* signature = signer.sign(data, key)
StrategySign ==
    /\ pc = "start"
    /\ call' = [param_str |-> data, out |-> Signer_sign(inst, data, key)]
    /\ pc' = "signed"
    /\ UNCHANGED ext
    /\ UNCHANGED ext2
    /\ UNCHANGED <<signers, regs, got, params, key, sign_type, call2, signed,
                   tamper, vkey, result, inst, data, claimed, client, resp, notif>>

\* signer.verify(data, sig, vk)
StrategyVerify(sig, vk) ==
    /\ pc \in {"start", "signed"}
    /\ claimed' = sig
    /\ vkey' = vk
    /\ result' = Signer_verify(inst, data, sig, vk)
    /\ pc' = "verified"
    /\ UNCHANGED ext
    /\ UNCHANGED ext2
    /\ UNCHANGED <<signers, regs, got, params, key, sign_type, call, call2,
                   signed, tamper, inst, data, client, resp, notif>>

NextStrategy ==
    \/ StrategySign
    \/ \E sig \in Presented(call.out), vk \in StrategyCreds : StrategyVerify(sig, vk)

SpecStrategy == InitStrategy /\ [][NextStrategy]_vars

(***************************************************************************)
(* SpecRegistry: register_signer and get_signer calls in any order.        *)
(***************************************************************************)
RegistryIds == {N_MD5, N_md5, N_RSA2, N_NOPE}
NewInstances == {MD5Signer(5), HMACSHA256Signer(6)}

InitRegistry ==
    /\ RegistryIdle /\ SessionIdle /\ StrategyIdle /\ ClientIdle /\ ExtIdle /\ Ext2Idle
    /\ pc = "registry"

\* SignerFactory.register_signer(id, signer)
RegisterSigner(id, signer) ==
    /\ pc = "registry"
    /\ Len(regs) < MaxRegistrations
    /\ signers' = register_signer(signers, id, signer)
    /\ regs' = Append(regs, [id |-> id, signer |-> signer])
    /\ got' = [kind |-> "register", arg |-> id, before |-> signers]
    /\ UNCHANGED ext
    /\ UNCHANGED ext2
    /\ UNCHANGED <<params, key, sign_type, pc, call, call2, signed, tamper, vkey,
                   result, inst, data, claimed, client, resp, notif>>

\* SignerFactory.get_signer(id)
GetSigner(id) ==
    /\ pc = "registry"
    /\ got' = [kind |-> "get", arg |-> id, out |-> get_signer(signers, id)]
    /\ UNCHANGED ext
    /\ UNCHANGED ext2
    /\ UNCHANGED <<signers, regs, params, key, sign_type, pc, call, call2, signed,
                   tamper, vkey, result, inst, data, claimed, client, resp, notif>>

NextRegistry ==
    \/ \E id \in RegistryIds, signer \in NewInstances : RegisterSigner(id, signer)
    \/ \E id \in RegistryIds : GetSigner(id)

SpecRegistry == InitRegistry /\ [][NextRegistry]_vars

(***************************************************************************)
(* SpecClient: a constructed client or notify handler checks a payload and *)
(* a claimed signature, as a synchronous response and as a notification.   *)
(***************************************************************************)
Clients == {"AlipayClient", "WechatClient"}
Handlers == {"AlipayNotifyHandler", "WechatNotifyHandler", "QQNotifyHandler"}
ConfigSignTypes == {N_MD5, N_HMAC, N_RSA2}

\* what a sender may present as the signature of payload d: "", a wrong
\* text, or a signature computed over d with any credential that signs
ClaimedFor(signer, d) ==
    {PyStr(<<>>), PyStr(W_wrong)}
    \cup {Signer_sign(signer, ParamStr(d), c).val :
            c \in {x \in Creds : Signer_sign(signer, ParamStr(d), x).kind = "ret"}}

InitClient ==
    /\ RegistryIdle /\ ExtIdle /\ Ext2Idle
    /\ signed = <<>> /\ tamper = "none" /\ call = NoSign /\ call2 = NoSign
    /\ vkey = None_ /\ result = NoCall /\ data = <<>>
    /\ client \in Clients \cup Handlers
    /\ sign_type \in ConfigSignTypes
    /\ inst = get_signer(signers, sign_type).val
    /\ key \in Creds
    /\ params \in ParamDicts
    /\ claimed \in ClaimedFor(inst, params)
    /\ resp = NoCall /\ notif = NoCall
    /\ pc = "client"

\* client._verify_response(params, claimed)
VerifyResponse ==
    /\ pc = "client" /\ client \in Clients /\ resp = NoCall
    /\ resp' = IF client = "AlipayClient"
               THEN AlipayClient_verify_response(inst, key, params, claimed)
               ELSE WechatClient_verify_response(inst, key, params, claimed)
    /\ UNCHANGED ext
    /\ UNCHANGED ext2
    /\ UNCHANGED <<signers, regs, got, params, key, sign_type, pc, call, call2,
                   signed, tamper, vkey, result, inst, data, claimed, client, notif>>

\* client.verify_notify(params, claimed) / handler.verify(params, claimed)
VerifyNotify ==
    /\ pc = "client" /\ notif = NoCall
    /\ notif' =
         CASE client = "AlipayClient" ->
                AlipayClient_verify_notify(inst, key, params, claimed)
           [] client = "WechatClient" ->
                WechatClient_verify_notify(inst, key, params, claimed)
           [] client = "AlipayNotifyHandler" ->
                AlipayNotifyHandler_verify(inst, key, params, claimed)
           [] client = "WechatNotifyHandler" ->
                WechatNotifyHandler_verify(inst, key, params, claimed)
           [] client = "QQNotifyHandler" ->
                QQNotifyHandler_verify(inst, key, params, claimed)
    /\ UNCHANGED ext
    /\ UNCHANGED ext2
    /\ UNCHANGED <<signers, regs, got, params, key, sign_type, pc, call, call2,
                   signed, tamper, vkey, result, inst, data, claimed, client, resp>>

NextClient == VerifyResponse \/ VerifyNotify

SpecClient == InitClient /\ [][NextClient]_vars

(***************************************************************************)
(* NotifyProcessor.process.  A raw notification is a dict, a str in the    *)
(* handler's wire format (form data for Alipay, XML for WeChat and QQ), a  *)
(* str that is not in that format, bytes that are not UTF-8, or a value of *)
(* another type.  A wire-format text is given by the fields it encodes, in *)
(* order, each with the text of its value; urllib's parse_qs and           *)
(* ElementTree are modelled by the fields they hand back.  A response is   *)
(* the text the handler returns, by its distinguishing content.  A run of  *)
(* process is recorded with the events it went through, in order.          *)
(***************************************************************************)
\* the messages process passes to fail_response
M_missing_sign == "missing sign"                 \* "缺少签名"
M_verify_failed == "verify failed"               \* "签名验证失败"
M_callback_false == "business failed"            \* "业务处理失败"
M_callback_exception == "business exception"     \* "业务处理异常"
M_notify_error == "notify error"                 \* str(e) of the NotifyError
M_exception == "exception"                       \* "处理异常"
M_default == "failed"                            \* "处理失败"
Messages == {M_missing_sign, M_verify_failed, M_callback_false,
             M_callback_exception, M_notify_error, M_exception}

notify_type(handler) ==
    CASE handler = "AlipayNotifyHandler" -> N_ALIPAY
      [] handler = "WechatNotifyHandler" -> N_WECHAT
      [] handler = "QQNotifyHandler" -> N_QQ

\* handler.success_response()
success_response(handler) ==
    IF handler = "AlipayNotifyHandler" THEN [t |-> "text", s |-> "success"]
    ELSE [t |-> "xml", return_code |-> "SUCCESS", return_msg |-> "OK"]

\* handler.fail_response(message)
fail_response(handler, message) ==
    IF handler = "AlipayNotifyHandler" THEN [t |-> "text", s |-> "failure"]
    ELSE [t |-> "xml", return_code |-> "FAIL",
          return_msg |-> IF message = "" THEN M_default ELSE message]

\* the text a field value has on the wire
WireValue(v) ==
    CASE v.t = "none" -> PyStr(<<>>)
      [] v.t = "digest" -> v
      [] OTHER -> PyStr(Format(v))
WireText(d) == [i \in 1..Len(d) |-> Entry(d[i].k, WireValue(d[i].v))]

RawDict(d) == [t |-> "dict", d |-> d]
RawStr(d) == [t |-> "str", fields |-> WireText(d)]
RawGarbage == [t |-> "str_garbage"]
RawBadBytes == [t |-> "bytes_bad"]
RawOther == [t |-> "other"]

NonBlank(e) == e.v # PyStr(<<>>)

\* AlipayNotifyHandler.parse: parse_qs drops blank values, and a text with
\* no name=value pair parses to {}
AlipayNotifyHandler_parse(raw) ==
    CASE raw.t = "dict" -> Ret(raw.d)
      [] raw.t = "str" -> Ret(SelectSeq(raw.fields, NonBlank))
      [] raw.t = "str_garbage" -> Ret(<<>>)
      [] raw.t = "bytes_bad" -> Raise("NotifyError", PyStr(N_ALIPAY))
      [] OTHER -> Raise("NotifyError", PyStr(N_ALIPAY))

\* WechatNotifyHandler.parse / QQNotifyHandler.parse: XmlMap.from_xml sets
\* each child, XmlMap.set drops None and "", and a text that is not XML
\* raises
XmlNotifyHandler_parse(handler, raw) ==
    CASE raw.t = "dict" -> Ret(raw.d)
      [] raw.t = "str" -> Ret(SelectSeq(raw.fields, NonBlank))
      [] raw.t = "str_garbage" -> Raise("NotifyError", PyStr(notify_type(handler)))
      [] raw.t = "bytes_bad" -> Raise("NotifyError", PyStr(notify_type(handler)))
      [] OTHER -> Raise("NotifyError", PyStr(notify_type(handler)))

Handler_parse(handler, raw) ==
    IF handler = "AlipayNotifyHandler" THEN AlipayNotifyHandler_parse(raw)
    ELSE XmlNotifyHandler_parse(handler, raw)

Handler_verify(handler, self_signer, cred, data_, signature) ==
    CASE handler = "AlipayNotifyHandler" ->
            AlipayNotifyHandler_verify(self_signer, cred, data_, signature)
      [] handler = "WechatNotifyHandler" ->
            WechatNotifyHandler_verify(self_signer, cred, data_, signature)
      [] handler = "QQNotifyHandler" ->
            QQNotifyHandler_verify(self_signer, cred, data_, signature)

\* how a callback behaves when invoked; "absent" is callback=None
Callbacks == {"absent", "returns_none", "returns_true", "returns_false", "raises"}

Run(out, events) == [out |-> out, events |-> events]

\* process with the callback invoked outside any try
NotifyProcessor_process_cbraise(handler, self_signer, cred, raw, cb) ==
    LET parsed == Handler_parse(handler, raw)
        data_ == parsed.val
        signature == IF HasKey(data_, S_sign) THEN Lookup(data_, S_sign) ELSE PyStr(<<>>)
        ok == Handler_verify(handler, self_signer, cred, data_, signature)
    IN  IF parsed.kind = "raise"
        THEN Run(Ret(fail_response(handler, M_notify_error)), <<"parse_error">>)
        ELSE IF ~Truthy(signature)
        THEN Run(Ret(fail_response(handler, M_missing_sign)), <<"parse_ok", "sign_missing">>)
        ELSE IF ok # Ret(PyBool(TRUE))
        THEN Run(Ret(fail_response(handler, M_verify_failed)), <<"parse_ok", "verify_false">>)
        ELSE IF cb = "absent"
        THEN Run(Ret(success_response(handler)), <<"parse_ok", "verify_true">>)
        ELSE IF cb = "raises"
        THEN Run(Raise("Exception", None_), <<"parse_ok", "verify_true", "callback">>)
        ELSE IF cb = "returns_false"
        THEN Run(Ret(fail_response(handler, M_callback_false)),
                 <<"parse_ok", "verify_true", "callback">>)
        ELSE Run(Ret(success_response(handler)), <<"parse_ok", "verify_true", "callback">>)

\* process with the callback invoked before the signature is looked at
NotifyProcessor_process_cbfirst(handler, self_signer, cred, raw, cb) ==
    LET parsed == Handler_parse(handler, raw)
        data_ == parsed.val
        signature == IF HasKey(data_, S_sign) THEN Lookup(data_, S_sign) ELSE PyStr(<<>>)
        ok == Handler_verify(handler, self_signer, cred, data_, signature)
        called == IF cb = "absent" THEN <<>> ELSE <<"callback">>
    IN  IF parsed.kind = "raise"
        THEN Run(Ret(fail_response(handler, M_notify_error)), <<"parse_error">>)
        ELSE IF cb = "raises"
        THEN Run(Ret(fail_response(handler, M_callback_exception)), <<"parse_ok", "callback">>)
        ELSE IF cb = "returns_false"
        THEN Run(Ret(fail_response(handler, M_callback_false)), <<"parse_ok", "callback">>)
        ELSE IF ~Truthy(signature)
        THEN Run(Ret(fail_response(handler, M_missing_sign)),
                 <<"parse_ok">> \o called \o <<"sign_missing">>)
        ELSE IF ok # Ret(PyBool(TRUE))
        THEN Run(Ret(fail_response(handler, M_verify_failed)),
                 <<"parse_ok">> \o called \o <<"verify_false">>)
        ELSE Run(Ret(success_response(handler)),
                 <<"parse_ok">> \o called \o <<"verify_true">>)

\* NotifyProcessor.process(raw_data, callback) on a processor whose handler
\* holds self_signer and cred
NotifyProcessor_process(handler, self_signer, cred, raw, cb) ==
    LET parsed == Handler_parse(handler, raw)
        data_ == parsed.val
        signature == IF HasKey(data_, S_sign) THEN Lookup(data_, S_sign) ELSE PyStr(<<>>)
        ok == Handler_verify(handler, self_signer, cred, data_, signature)
    IN  IF parsed.kind = "raise"
        THEN Run(Ret(fail_response(handler, M_notify_error)), <<"parse_error">>)
        ELSE IF ~Truthy(signature)
        THEN Run(Ret(fail_response(handler, M_missing_sign)), <<"parse_ok", "sign_missing">>)
        ELSE IF ok.kind = "raise"
        THEN Run(Ret(fail_response(handler, M_exception)), <<"parse_ok", "verify_error">>)
        ELSE IF ~Truthy(ok.val)
        THEN Run(Ret(fail_response(handler, M_verify_failed)), <<"parse_ok", "verify_false">>)
        ELSE IF cb = "absent"
        THEN Run(Ret(success_response(handler)), <<"parse_ok", "verify_true">>)
        ELSE IF cb = "raises"
        THEN Run(Ret(fail_response(handler, M_callback_exception)),
                 <<"parse_ok", "verify_true", "callback">>)
        ELSE IF cb = "returns_false"
        THEN Run(Ret(fail_response(handler, M_callback_false)),
                 <<"parse_ok", "verify_true", "callback">>)
        ELSE Run(Ret(success_response(handler)), <<"parse_ok", "verify_true", "callback">>)

\* what a sender puts in a notification besides the signature
NotifyPayloads == {d \in ParamDicts : ~HasKey(d, S_sign) /\ Len(d) < MaxParams}

\* the notification dicts a sender may build from payload d: unsigned, or
\* with a sign entry
Notifications(signer, d) ==
    {d} \cup {DictSet(d, S_sign, s) : s \in ClaimedFor(signer, d) \cup {None_}}

RawInputs(d) == {RawDict(d), RawStr(d), RawGarbage, RawBadBytes, RawOther}

InitNotify ==
    /\ RegistryIdle /\ ThreadsIdle /\ ConfigIdle /\ BodyIdle /\ Ext2Idle
    /\ signed = <<>> /\ tamper = "none" /\ call = NoSign /\ call2 = NoSign
    /\ vkey = None_ /\ result = NoCall /\ data = <<>> /\ claimed = None_
    /\ resp = NoCall /\ notif = NoCall
    /\ client \in Handlers
    /\ sign_type \in ConfigSignTypes
    /\ inst = get_signer(signers, sign_type).val
    /\ key \in Creds
    /\ \E d \in NotifyPayloads : params \in Notifications(inst, d)
    /\ raw_data \in RawInputs(params)
    /\ callback \in Callbacks
    /\ runs = <<>>
    /\ pc = "notify"

\* the second and later deliveries of a notification are acknowledged
\* without the callback
ProcessNotify_once ==
    /\ pc = "notify" /\ Len(runs) < MaxProcess
    /\ runs' = Append(runs,
                 IF runs = <<>>
                 THEN NotifyProcessor_process(client, inst, key, raw_data, callback)
                 ELSE NotifyProcessor_process(client, inst, key, raw_data, "absent"))
    /\ UNCHANGED ext2
    /\ UNCHANGED <<core, raw_data, callback, threads, configs, cfg_hist, cfg_got,
                   body, body_got>>

\* NotifyProcessor(handler).process(raw_data, callback)
ProcessNotify ==
    /\ pc = "notify" /\ Len(runs) < MaxProcess
    /\ runs' = Append(runs, NotifyProcessor_process(client, inst, key, raw_data, callback))
    /\ UNCHANGED ext2
    /\ UNCHANGED <<core, raw_data, callback, threads, configs, cfg_hist, cfg_got,
                   body, body_got>>

NextNotify == ProcessNotify

SpecNotify == InitNotify /\ [][NextNotify]_vars

(***************************************************************************)
(* Concurrent callers.  Each thread runs one get_signer, sign_params or    *)
(* verify_params call; threads interleave between their reads of           *)
(* SignerFactory._signers (the membership test and the subscript in        *)
(* get_signer).  No thread calls register_signer.  signer is the thread's  *)
(* local variable of that name.                                            *)
(***************************************************************************)
ThreadSignTypes == {N_md5, N_RSA2, N_NOPE}
ThreadParams ==
    {<<>>, <<Entry(F_a, PyInt(0)),
             Entry(S_sign, MD5Signer_sign(F_a \o S_eq \o V_0, PyStr(K_k1)).val)>>}
ThreadCalls ==
    {[op |-> "get_signer", params |-> <<>>, key |-> None_, sign_type |-> st] :
        st \in ThreadSignTypes}
    \cup {[op |-> o, params |-> q, key |-> PyStr(K_k1), sign_type |-> st] :
            o \in {"sign_params", "verify_params"}, q \in ThreadParams,
            st \in ThreadSignTypes}

Thread(c) == [op |-> c.op, params |-> c.params, key |-> c.key,
              sign_type |-> c.sign_type, pc |-> "start", signer |-> NoCall,
              out |-> NoCall]

Done(th, out) == [th EXCEPT !.pc = "done", !.out = out]

InitThreads ==
    /\ RegistryIdle /\ SessionIdle /\ StrategyIdle /\ ClientIdle /\ Ext2Idle
    /\ NotifyIdle /\ ConfigIdle /\ BodyIdle
    /\ threads \in [1..MaxThreads -> {Thread(c) : c \in ThreadCalls}]
    /\ pc = "threads"

\* the membership test, with a miss filled in by a default strategy
ThreadContains_autoregister(t) ==
    LET th == threads[t]
        sign_type_upper == Upper(th.sign_type)
    IN  /\ pc = "threads" /\ th.pc = "start"
        /\ IF th.op = "verify_params" /\ ~HasKey(th.params, S_sign)
           THEN /\ threads' = [threads EXCEPT ![t] = Done(th, Ret(PyBool(FALSE)))]
                /\ UNCHANGED signers
           ELSE /\ threads' = [threads EXCEPT ![t].pc = "found"]
                /\ signers' = IF sign_type_upper \in DOMAIN signers THEN signers
                              ELSE register_signer(signers, th.sign_type, MD5Signer(5))
        /\ UNCHANGED <<regs, got, params, key, sign_type, pc, call, call2, signed,
                       tamper, vkey, result, inst, data, claimed, client, resp, notif>>
        /\ UNCHANGED ext2
        /\ UNCHANGED <<raw_data, callback, runs, configs, cfg_hist, cfg_got,
                       body, body_got>>

\* the call up to and including "sign_type_upper not in cls._signers"
ThreadContains(t) ==
    LET th == threads[t]
        sign_type_upper == Upper(th.sign_type)
    IN  /\ pc = "threads" /\ th.pc = "start"
        /\ threads' = [threads EXCEPT ![t] =
             IF th.op = "verify_params" /\ ~HasKey(th.params, S_sign)
             THEN Done(th, Ret(PyBool(FALSE)))
             ELSE IF sign_type_upper \notin DOMAIN signers
             THEN Done(th, Raise("SignError", PyStr(th.sign_type)))
             ELSE [th EXCEPT !.pc = "found"]]
        /\ UNCHANGED ext2
        /\ UNCHANGED <<core, raw_data, callback, runs, configs, cfg_hist, cfg_got,
                       body, body_got>>

\* "return cls._signers[sign_type_upper]"
ThreadGetItem(t) ==
    LET th == threads[t]
        sign_type_upper == Upper(th.sign_type)
    IN  /\ pc = "threads" /\ th.pc = "found"
        /\ threads' = [threads EXCEPT ![t] =
             IF sign_type_upper \notin DOMAIN signers
             THEN Done(th, Raise("KeyError", None_))
             ELSE IF th.op = "get_signer"
             THEN Done(th, Ret(signers[sign_type_upper]))
             ELSE [th EXCEPT !.pc = "resolved", !.signer = signers[sign_type_upper]]]
        /\ UNCHANGED ext2
        /\ UNCHANGED <<core, raw_data, callback, runs, configs, cfg_hist, cfg_got,
                       body, body_got>>

\* "signer.sign(param_str, key)" and, in verify_params, the comparison
ThreadSign(t) ==
    LET th == threads[t]
        calculated_sign == Signer_sign(th.signer, ParamStr(th.params), th.key)
    IN  /\ pc = "threads" /\ th.pc = "resolved"
        /\ threads' = [threads EXCEPT ![t] =
             IF th.op = "sign_params" \/ calculated_sign.kind = "raise"
             THEN Done(th, calculated_sign)
             ELSE Done(th, Ret(PyBool(PyEq(Lookup(th.params, S_sign),
                                           calculated_sign.val))))]
        /\ UNCHANGED ext2
        /\ UNCHANGED <<core, raw_data, callback, runs, configs, cfg_hist, cfg_got,
                       body, body_got>>

NextThreads ==
    \E t \in 1..MaxThreads : ThreadContains(t) \/ ThreadGetItem(t) \/ ThreadSign(t)

SpecThreads == InitThreads /\ [][NextThreads]_vars

(***************************************************************************)
(* SpecSignRequest: a client is constructed from its configuration (the    *)
(* constructor resolves the strategy of config.sign_type) and signs the    *)
(* parameters of a request.  key is the signing credential of the          *)
(* configuration: app_private_key for Alipay, api_key for WeChat.          *)
(***************************************************************************)
InitSignRequest ==
    /\ RegistryIdle /\ StrategyIdle /\ ExtIdle /\ Ext2Idle
    /\ signed = <<>> /\ tamper = "none" /\ call = NoSign /\ call2 = NoSign
    /\ vkey = None_ /\ result = NoCall /\ resp = NoCall /\ notif = NoCall
    /\ client \in Clients
    /\ sign_type \in SignTypes
    /\ key \in Creds
    /\ params \in ParamDicts
    /\ pc = "config"

\* AlipayClient(config) / WechatClient(config)
NewClient ==
    /\ pc = "config"
    /\ LET signer == get_signer(signers, sign_type)
       IN  IF signer.kind = "raise"
           THEN /\ call' = [param_str |-> <<>>, out |-> signer]
                /\ pc' = "failed"
                /\ UNCHANGED inst
           ELSE /\ inst' = signer.val
                /\ pc' = "ready"
                /\ UNCHANGED call
    /\ UNCHANGED ext
    /\ UNCHANGED ext2
    /\ UNCHANGED <<signers, regs, got, params, key, sign_type, call2, signed,
                   tamper, vkey, result, data, claimed, client, resp, notif>>

\* client._sign_request(params) / client._sign_params(params)
SignRequest ==
    /\ pc = "ready"
    /\ call' = [param_str |-> ParamStr(params),
                out |-> IF client = "AlipayClient"
                        THEN AlipayClient_sign_request(inst, key, params)
                        ELSE WechatClient_sign_params(inst, key, params)]
    /\ pc' = "requested"
    /\ UNCHANGED ext
    /\ UNCHANGED ext2
    /\ UNCHANGED <<signers, regs, got, params, key, sign_type, call2, signed,
                   tamper, vkey, result, inst, data, claimed, client, resp, notif>>

NextSignRequest == NewClient \/ SignRequest

SpecSignRequest == InitSignRequest /\ [][NextSignRequest]_vars

(***************************************************************************)
(* ConfigManager.  _configs is a dict from name to configuration object.   *)
(* A configuration is given by its app_id and its identity (oid); app_id   *)
(* is non-empty at construction (__post_init__) but is a plain attribute   *)
(* and may have been emptied since.                                        *)
(***************************************************************************)
CN_a == <<97>>          \* "a"
CN_A == <<65>>          \* "A"
ConfigNames == {CN_a, CN_A}
PaymentConfig(app_id, oid) == [cls |-> "PaymentConfig", app_id |-> app_id, oid |-> oid]
ConfigObjects ==
    {PaymentConfig(PyStr(K_k1), 1), PaymentConfig(PyStr(K_k1), 2),
     PaymentConfig(PyStr(<<>>), 3)}

\* PaymentConfig.validate
PaymentConfig_validate(config) ==
    IF ~Truthy(config.app_id) THEN Raise("ConfigError", None_) ELSE Ret(None_)

\* register that keeps the configuration already held under the name
ConfigManager_register_keepfirst(cfgs, name, config) ==
    IF PaymentConfig_validate(config).kind = "raise"
    THEN [configs |-> cfgs, out |-> PaymentConfig_validate(config)]
    ELSE [configs |-> IF HasKey(cfgs, name) THEN cfgs ELSE DictSet(cfgs, name, config),
          out |-> Ret(None_)]

\* ConfigManager.register
ConfigManager_register(cfgs, name, config) ==
    IF PaymentConfig_validate(config).kind = "raise"
    THEN [configs |-> cfgs, out |-> PaymentConfig_validate(config)]
    ELSE [configs |-> DictSet(cfgs, name, config), out |-> Ret(None_)]

\* ConfigManager.get
ConfigManager_get(cfgs, name) ==
    IF ~HasKey(cfgs, name) THEN Raise("ConfigError", None_)
    ELSE Ret(Lookup(cfgs, name))

\* ConfigManager.remove
ConfigManager_remove(cfgs, name) ==
    LET Other(e) == e.k # name
    IN  IF HasKey(cfgs, name) THEN SelectSeq(cfgs, Other) ELSE cfgs

\* ConfigManager.list_configs
ConfigManager_list_configs(cfgs) == [i \in 1..Len(cfgs) |-> cfgs[i].k]

InitConfig ==
    /\ RegistryIdle /\ SessionIdle /\ StrategyIdle /\ ClientIdle /\ Ext2Idle
    /\ NotifyIdle /\ ThreadsIdle /\ BodyIdle
    /\ configs = <<>> /\ cfg_hist = <<>> /\ cfg_got = NoCall
    /\ pc = "config_manager"

\* manager.register(name, config)
ConfigRegister(name, config) ==
    LET r == ConfigManager_register(configs, name, config)
    IN  /\ pc = "config_manager" /\ Len(cfg_hist) < MaxConfigCalls
        /\ configs' = r.configs
        /\ cfg_hist' = Append(cfg_hist, [op |-> "register", name |-> name,
                                         config |-> config, out |-> r.out])
        /\ cfg_got' = [kind |-> "register", arg |-> name, out |-> r.out,
                       before |-> configs]
        /\ UNCHANGED ext2
        /\ UNCHANGED <<core, raw_data, callback, runs, threads, body, body_got>>

\* manager.remove(name)
ConfigRemove(name) ==
    /\ pc = "config_manager" /\ Len(cfg_hist) < MaxConfigCalls
    /\ configs' = ConfigManager_remove(configs, name)
    /\ cfg_hist' = Append(cfg_hist, [op |-> "remove", name |-> name,
                                     config |-> None_, out |-> Ret(None_)])
    /\ cfg_got' = [kind |-> "remove", arg |-> name, out |-> Ret(None_),
                   before |-> configs]
    /\ UNCHANGED ext2
    /\ UNCHANGED <<core, raw_data, callback, runs, threads, body, body_got>>

\* manager.get(name)
ConfigGet(name) ==
    /\ pc = "config_manager"
    /\ cfg_got' = [kind |-> "get", arg |-> name,
                   out |-> ConfigManager_get(configs, name), before |-> configs]
    /\ UNCHANGED ext2
    /\ UNCHANGED <<core, raw_data, callback, runs, threads, configs, cfg_hist,
                   body, body_got>>

\* manager.list_configs()
ConfigList ==
    /\ pc = "config_manager"
    /\ cfg_got' = [kind |-> "list", arg |-> <<>>,
                   out |-> Ret(ConfigManager_list_configs(configs)), before |-> configs]
    /\ UNCHANGED ext2
    /\ UNCHANGED <<core, raw_data, callback, runs, threads, configs, cfg_hist,
                   body, body_got>>

NextConfig ==
    \/ \E name \in ConfigNames, config \in ConfigObjects : ConfigRegister(name, config)
    \/ \E name \in ConfigNames : ConfigRemove(name)
    \/ \E name \in ConfigNames : ConfigGet(name)
    \/ ConfigList

SpecConfig == InitConfig /\ [][NextConfig]_vars

(***************************************************************************)
(* BodyMap(dict).  A BodyMap holds two stores: the content of the dict it  *)
(* inherits from (dict) and _ordered_data (ordered).  The constructor      *)
(* passes its arguments to dict and starts _ordered_data empty.            *)
(***************************************************************************)
BodyMap_new(initial) == [dict |-> initial, ordered |-> <<>>]

\* d without key k
DictDel(d, k) ==
    LET Other(e) == e.k # k
    IN  SelectSeq(d, Other)

\* d.update(other)
RECURSIVE DictUpdate(_, _)
DictUpdate(d, other) ==
    IF other = <<>> THEN d
    ELSE DictUpdate(DictSet(d, Head(other).k, Head(other).v), Tail(other))

\* value is not None and value != ""
HasValue(value) == ~PyEq(value, None_) /\ ~PyEq(value, PyStr(<<>>))
EntryHasValue(e) == HasValue(e.v)

\* set with the test written "if value:"
BodyMap_set_truthy(self, k, value) ==
    IF Truthy(value)
    THEN [dict |-> DictSet(self.dict, k, value),
          ordered |-> DictSet(self.ordered, k, value)]
    ELSE self

\* BodyMap.set: the BodyMap afterwards (the call returns self)
BodyMap_set(self, k, value) ==
    IF HasValue(value)
    THEN [dict |-> DictSet(self.dict, k, value),
          ordered |-> DictSet(self.ordered, k, value)]
    ELSE self

\* BodyMap.get(key), default None
BodyMap_get(self, k) ==
    IF HasKey(self.ordered, k) THEN Lookup(self.ordered, k) ELSE None_

\* BodyMap.remove
BodyMap_remove(self, k) ==
    IF HasKey(self.ordered, k)
    THEN [dict |-> DictDel(self.dict, k), ordered |-> DictDel(self.ordered, k)]
    ELSE self

\* BodyMap.contains
BodyMap_contains(self, k) == HasKey(self.ordered, k)

\* BodyMap.clear
BodyMap_clear(self) == [dict |-> <<>>, ordered |-> <<>>]

\* BodyMap.to_dict
BodyMap_to_dict(self) == self.ordered

\* BodyMap.items
BodyMap_items(self) == self.ordered

\* BodyMap.__len__
BodyMap_len(self) == Len(self.ordered)

\* BodyMap.encode_wechat_sign_params
BodyMap_encode_wechat_sign_params(self) ==
    LET sorted_params == Sorted(self.ordered)
        kept == SelectSeq(sorted_params, EntryHasValue)
    IN  Join([i \in 1..Len(kept) |-> kept[i].k \o S_eq \o Format(kept[i].v)])

\* BodyMap.encode_alipay_sign_params
BodyMap_encode_alipay_sign_params(self) ==
    LET sorted_params == Sorted(self.ordered)
        kept == SelectSeq(sorted_params, EntryHasValue)
    IN  Join([i \in 1..Len(kept) |-> kept[i].k \o S_eq \o Format(kept[i].v)])

\* BodyMap.filter_none
BodyMap_filter_none(self) ==
    LET filtered == SelectSeq(self.ordered, EntryHasValue)
    IN  [dict |-> filtered, ordered |-> filtered]

\* BodyMap.update(other), other a dict (or the _ordered_data of a BodyMap)
BodyMap_update(self, other) ==
    LET ordered == DictUpdate(self.ordered, other)
    IN  [dict |-> DictUpdate(self.dict, ordered), ordered |-> ordered]

BodyInitial == {<<>>, <<Entry(F_a, PyStr(V_0))>>}
BodyOthers ==
    {<<>>, <<Entry(F_a, None_)>>, <<Entry(F_B, PyStr(V_0)), Entry(S_sign, PyStr(<<>>))>>}

BodyCall(kind, k, v, before, n) ==
    [kind |-> kind, k |-> k, v |-> v, before |-> before, ret |-> "self", n |-> n]

InitBody ==
    /\ RegistryIdle /\ SessionIdle /\ StrategyIdle /\ ClientIdle /\ Ext2Idle
    /\ NotifyIdle /\ ThreadsIdle /\ ConfigIdle
    /\ \E initial \in BodyInitial :
          /\ body = BodyMap_new(initial)
          /\ body_got = BodyCall("new", <<>>, None_, body, 0)
    /\ pc = "body"

BodyFrame == UNCHANGED <<core, ext2, raw_data, callback, runs, threads, configs,
                         cfg_hist, cfg_got>>

\* body.set(k, v)
BodySet(k, v) ==
    /\ pc = "body" /\ body_got.n < MaxBodyCalls
    /\ body' = BodyMap_set(body, k, v)
    /\ body_got' = BodyCall("set", k, v, body, body_got.n + 1)
    /\ BodyFrame

\* body.update(other)
BodyUpdate(other) ==
    /\ pc = "body" /\ body_got.n < MaxBodyCalls
    /\ body' = BodyMap_update(body, other)
    /\ body_got' = BodyCall("update", <<>>, None_, body, body_got.n + 1)
    /\ BodyFrame

\* body.remove(k)
BodyRemove(k) ==
    /\ pc = "body" /\ body_got.n < MaxBodyCalls
    /\ body' = BodyMap_remove(body, k)
    /\ body_got' = BodyCall("remove", k, None_, body, body_got.n + 1)
    /\ BodyFrame

\* body.filter_none()
BodyFilterNone ==
    /\ pc = "body" /\ body_got.n < MaxBodyCalls
    /\ body' = BodyMap_filter_none(body)
    /\ body_got' = BodyCall("filter_none", <<>>, None_, body, body_got.n + 1)
    /\ BodyFrame

\* body.clear()
BodyClear ==
    /\ pc = "body" /\ body_got.n < MaxBodyCalls
    /\ body' = BodyMap_clear(body)
    /\ body_got' = BodyCall("clear", <<>>, None_, body, body_got.n + 1)
    /\ BodyFrame

NextBody ==
    \/ \E k \in FieldNames, v \in FieldValues : BodySet(k, v)
    \/ \E other \in BodyOthers : BodyUpdate(other)
    \/ \E k \in FieldNames : BodyRemove(k)
    \/ BodyFilterNone
    \/ BodyClear

SpecBody == InitBody /\ [][NextBody]_vars

(***************************************************************************)
(* _do_request of the two clients.  The provider's answer (http_resp) is   *)
(* a network failure, an HTTP status other than 200, a body that does not  *)
(* parse, or a parsed body.  key is the signing credential (Alipay:        *)
(* app_private_key, WeChat: api_key) and vkey the verification credential  *)
(* (Alipay: alipay_public_key, WeChat: api_key again).  A ResponseData is  *)
(* given by its success flag, data, error and code.  The outcome of        *)
(* _do_request is recorded with the verdict of the _verify_response call   *)
(* it made (NoCall when it made none).                                     *)
(***************************************************************************)
F_code == <<99, 111, 100, 101>>                              \* "code"
F_return_code == <<114, 101, 116, 117, 114, 110, 95, 99, 111, 100, 101>>   \* "return_code"
F_result_code == <<114, 101, 115, 117, 108, 116, 95, 99, 111, 100, 101>>   \* "result_code"
V_10000 == <<49, 48, 48, 48, 48>>                            \* "10000"
V_40004 == <<52, 48, 48, 48, 52>>                            \* "40004"
V_SUCCESS == <<83, 85, 67, 67, 69, 83, 83>>                  \* "SUCCESS"
V_FAIL == <<70, 65, 73, 76>>                                 \* "FAIL"

\* ResponseData.success_response
ResponseData_success_response(data_) ==
    [success |-> TRUE, data |-> data_, error |-> "", code |-> None_]

\* ResponseData.error_response
ResponseData_error_response(error, code) ==
    [success |-> FALSE, data |-> <<>>, error |-> error, code |-> code]

\* dict.get(key), default None
DictGet(d, k) == IF HasKey(d, k) THEN Lookup(d, k) ELSE None_

HttpNetworkError == [t |-> "network_error"]
HttpStatus(status_code) == [t |-> "status", status_code |-> status_code]
HttpUnparseable == [t |-> "unparseable"]
\* a JSON body without the <method>_response key
HttpNoResponseKey == [t |-> "no_response_key"]
\* a body that parses: the response fields and, if has_sign, the sign field
HttpBody(fields, has_sign, sign) ==
    [t |-> "body", fields |-> fields, has_sign |-> has_sign, sign |-> sign]

DoRequestOutcome(out, verdict) == [out |-> out, verdict |-> verdict]

\* AlipayClient._do_request
AlipayClient_do_request(self_signer, app_private_key, alipay_public_key, params_, http) ==
    LET sign == AlipayClient_sign_request(self_signer, app_private_key, params_)
        response_data == http.fields
        response_sign == IF http.has_sign THEN http.sign ELSE PyStr(<<>>)
        verdict == AlipayClient_verify_response(self_signer, alipay_public_key,
                                                response_data, response_sign)
    IN  IF sign.kind = "raise" THEN DoRequestOutcome(sign, NoCall)
        ELSE IF http.t = "network_error"
        THEN DoRequestOutcome(Ret(ResponseData_error_response("exception", None_)), NoCall)
        ELSE IF http.t = "status"
        THEN DoRequestOutcome(Ret(ResponseData_error_response("http status",
                                     PyStr(Digits(http.status_code)))), NoCall)
        ELSE IF http.t = "unparseable"
        THEN DoRequestOutcome(Ret(ResponseData_error_response("exception", None_)), NoCall)
        ELSE IF http.t = "no_response_key"
        THEN DoRequestOutcome(Ret(ResponseData_error_response("format", None_)), NoCall)
        ELSE IF verdict.kind = "raise"
        THEN DoRequestOutcome(Ret(ResponseData_error_response("exception", None_)), verdict)
        ELSE IF ~PyEq(DictGet(response_data, F_code), PyStr(V_10000))
        THEN DoRequestOutcome(Ret(ResponseData_error_response("business",
                                     DictGet(response_data, F_code))), verdict)
        ELSE DoRequestOutcome(Ret(ResponseData_success_response(response_data)), verdict)

\* WechatClient._do_request: the body is XML, read through XmlMap.from_xml
WechatClient_do_request(self_signer, api_key, params_, http) ==
    LET sign == WechatClient_sign_params(self_signer, api_key, params_)
        fields == SelectSeq(WireText(http.fields), NonBlank)
        result_ == IF http.has_sign /\ NonBlank(Entry(S_sign, WireValue(http.sign)))
                   THEN DictSet(fields, S_sign, WireValue(http.sign))
                   ELSE fields
        verdict == IF HasKey(result_, S_sign)
                   THEN WechatClient_verify_response(self_signer, api_key, result_,
                                                     Lookup(result_, S_sign))
                   ELSE NoCall
    IN  IF sign.kind = "raise" THEN DoRequestOutcome(sign, NoCall)
        ELSE IF http.t = "network_error"
        THEN DoRequestOutcome(Ret(ResponseData_error_response("exception", None_)), NoCall)
        ELSE IF http.t = "status"
        THEN DoRequestOutcome(Ret(ResponseData_error_response("http status",
                                     PyStr(Digits(http.status_code)))), NoCall)
        ELSE IF http.t \in {"unparseable", "no_response_key"}
        THEN DoRequestOutcome(Ret(ResponseData_error_response("exception", None_)), NoCall)
        ELSE IF verdict.kind = "raise"
        THEN DoRequestOutcome(Ret(ResponseData_error_response("exception", None_)), verdict)
        ELSE IF ~PyEq(DictGet(result_, F_return_code), PyStr(V_SUCCESS))
        THEN DoRequestOutcome(Ret(ResponseData_error_response("return_code",
                                     DictGet(result_, F_return_code))), verdict)
        ELSE IF ~PyEq(DictGet(result_, F_result_code), PyStr(V_SUCCESS))
        THEN DoRequestOutcome(Ret(ResponseData_error_response("result_code", None_)), verdict)
        ELSE DoRequestOutcome(Ret(ResponseData_success_response(result_)), verdict)

\* the status fields a provider puts in its answer
StatusFields(c) ==
    IF c = "AlipayClient"
    THEN {<<>>, <<Entry(F_code, PyStr(V_10000))>>, <<Entry(F_code, PyStr(V_40004))>>}
    ELSE {<<Entry(F_return_code, PyStr(V_FAIL))>>,
          <<Entry(F_return_code, PyStr(V_SUCCESS)), Entry(F_result_code, PyStr(V_FAIL))>>,
          <<Entry(F_return_code, PyStr(V_SUCCESS)), Entry(F_result_code, PyStr(V_SUCCESS))>>}

\* the answers to a request: fields of the business, status fields, and a
\* sign field that is absent or holds what a sender may present
HttpResponses(c, signer) ==
    {HttpNetworkError, HttpStatus(500), HttpUnparseable, HttpNoResponseKey}
    \cup UNION {UNION {{HttpBody(d \o st, FALSE, None_)}
                       \cup {HttpBody(d \o st, TRUE, sg) : sg \in ClaimedFor(signer, d \o st)} :
                    st \in StatusFields(c)} : d \in NotifyPayloads}

RequestParams == {<<Entry(F_a, PyStr(V_0))>>}

InitDoRequest ==
    /\ RegistryIdle /\ Ext2Idle /\ ExtIdle
    /\ signed = <<>> /\ tamper = "none" /\ call = NoSign /\ call2 = NoSign
    /\ result = NoCall /\ data = <<>> /\ claimed = None_
    /\ resp = NoCall /\ notif = NoCall
    /\ client \in Clients
    /\ sign_type \in ConfigSignTypes
    /\ inst = get_signer(signers, sign_type).val
    /\ key \in Creds
    /\ vkey \in Creds
    /\ client = "WechatClient" => vkey = key
    /\ params \in RequestParams
    /\ pc = "request"

\* what a call of the client leaves alone
DoRequestFrame ==
    /\ UNCHANGED ext
    /\ UNCHANGED <<hc, now, limiter, chain, mw_log, hooks, hook_run>>
    /\ UNCHANGED <<signers, regs, got, params, key, sign_type, call, call2, signed,
                   tamper, vkey, result, inst, data, claimed, client, notif>>

\* the provider's answer arrives and client._do_request(...) completes
DoRequest ==
    /\ pc = "request"
    /\ \E http \in HttpResponses(client, inst) :
          LET r == IF client = "AlipayClient"
                   THEN AlipayClient_do_request(inst, key, vkey, params, http)
                   ELSE WechatClient_do_request(inst, key, params, http)
          IN  /\ http_resp' = IF r.out.kind = "raise" THEN NoCall ELSE http
              /\ dr' = r.out
              /\ resp' = r.verdict
    /\ pc' = "responded"
    /\ UNCHANGED <<calls, frame>>
    /\ DoRequestFrame

(***************************************************************************)
(* The methods of WechatClient that the PaymentClient interface names.     *)
(* The class body is the sequence of its def statements in source order;   *)
(* an attribute lookup finds the last def of the name.  A call binds its   *)
(* positional and keyword arguments to the def's parameters as Python      *)
(* does, raising TypeError when they do not fit.  calls records every      *)
(* method entered and every request issued.                                *)
(***************************************************************************)
P_out_trade_no == <<111, 117, 116, 95, 116, 114, 97, 100, 101, 95, 110, 111>>   \* "out_trade_no"
P_out_refund_no == <<111, 117, 116, 95, 114, 101, 102, 117, 110, 100, 95, 110, 111>>   \* "out_refund_no"
P_total_fee == <<116, 111, 116, 97, 108, 95, 102, 101, 101>>   \* "total_fee"
P_refund_fee == <<114, 101, 102, 117, 110, 100, 95, 102, 101, 101>>   \* "refund_fee"
P_order_no == <<111, 114, 100, 101, 114, 95, 110, 111>>   \* "order_no"
P_refund_amount == <<114, 101, 102, 117, 110, 100, 95, 97, 109, 111, 117, 110, 116>>   \* "refund_amount"
P_refund_no == <<114, 101, 102, 117, 110, 100, 95, 110, 111>>   \* "refund_no"
P_refund_desc == <<114, 101, 102, 117, 110, 100, 95, 100, 101, 115, 99>>   \* "refund_desc"
V_nonce == <<110>>                             \* a nonce string
V_o1 == <<111, 49>>                            \* order number "o1"

\* def name(self, params..., optional...=default, **kwargs): body
MethodDef(name, line, required, optional, var_kw, body_) ==
    [name |-> name, line |-> line, required |-> required, optional |-> optional,
     var_kw |-> var_kw, body |-> body_]

\* class WechatClient: the definitions of close_order and refund, in order
WechatClientMethods ==
    << MethodDef("close_order", 233, <<P_out_trade_no>>, <<>>, FALSE, "api_close_order"),
       MethodDef("refund", 249,
                 <<P_out_trade_no, P_out_refund_no, P_total_fee, P_refund_fee>>,
                 <<>>, TRUE, "api_refund"),
       MethodDef("close_order", 323, <<P_order_no>>, <<>>, FALSE, "iface_close_order"),
       MethodDef("refund", 327, <<P_order_no, P_refund_amount>>, <<P_refund_no>>,
                 TRUE, "iface_refund") >>

\* self.<name>: the last definition of the name in the class body
Resolve(cls, name) ==
    LET is == {i \in 1..Len(cls) : cls[i].name = name}
    IN  cls[CHOOSE i \in is : \A j \in is : j <= i]

Args(pos, kw) == [pos |-> pos, kw |-> kw]

\* the position of a name among the parameters, 0 if it is none of them
ParamIndex(names, n) ==
    IF \E i \in 1..Len(names) : names[i] = n
    THEN CHOOSE i \in 1..Len(names) : names[i] = n
    ELSE 0

\* argument binding of a call: the parameters' values and **kwargs, or
\* TypeError
Bind(def, args) ==
    LET names == def.required \o def.optional
        npos == Len(args.pos)
        byname(n) == IF ParamIndex(names, n) \in 1..npos
                     THEN args.pos[ParamIndex(names, n)]
                     ELSE IF HasKey(args.kw, n) THEN Lookup(args.kw, n)
                     ELSE None_
        given(n) == ParamIndex(names, n) \in 1..npos \/ HasKey(args.kw, n)
        extra(e) == ParamIndex(names, e.k) = 0
    IN  IF npos > Len(names) THEN Raise("TypeError", None_)
        ELSE IF \E i \in 1..Len(args.kw) : ParamIndex(names, args.kw[i].k) \in 1..npos
        THEN Raise("TypeError", None_)
        ELSE IF \E i \in 1..Len(args.kw) : \E j \in 1..Len(args.kw) :
                    i # j /\ args.kw[i].k = args.kw[j].k
        THEN Raise("TypeError", None_)
        ELSE IF ~def.var_kw /\ \E i \in 1..Len(args.kw) : extra(args.kw[i])
        THEN Raise("TypeError", None_)
        ELSE IF \E i \in 1..Len(def.required) : ~given(def.required[i])
        THEN Raise("TypeError", None_)
        ELSE Ret([bound |-> [i \in 1..Len(names) |-> Entry(names[i], byname(names[i]))],
                  kwargs |-> SelectSeq(args.kw, extra)])

CallEvent(def) == [e |-> "call", name |-> def.name, line |-> def.line]
RequestEvent(url) == [e |-> "request", url |-> url]
Invocation(out, verdict, events) == [out |-> out, verdict |-> verdict, events |-> events]

\* self._do_request(url, params) as a step of a method
Request(self_signer, api_key, url, params_, http) ==
    LET r == WechatClient_do_request(self_signer, api_key, params_, http)
    IN  Invocation(r.out, r.verdict,
                   IF r.out.kind = "raise" THEN <<>> ELSE <<RequestEvent(url)>>)

Pending(name, args) == [name |-> name, args |-> args]

\* the self.<name>(...) call the body of an interface definition makes
\* with the parameters a and **kwargs it was entered with
InnerCall(def, a, kwargs) ==
    IF def.body = "iface_close_order"
    THEN Pending("close_order",
                 Args(<<>>, <<Entry(P_out_trade_no, Lookup(a, P_order_no))>>))
    ELSE LET total_fee == PyInt(Lookup(a, P_refund_amount).n * 100)
             refund_no == Lookup(a, P_refund_no)
         IN  Pending("refund",
                     Args(<<>>,
                          << Entry(P_out_trade_no, Lookup(a, P_order_no)),
                             Entry(P_out_refund_no,
                                   IF Truthy(refund_no) THEN refund_no
                                   ELSE PyStr(V_nonce)),
                             Entry(P_total_fee, total_fee),
                             Entry(P_refund_fee, total_fee) >> \o kwargs))

\* the request the body of an API-level definition issues
ApiRequest(def, a, kwargs, self_signer, api_key, common, http) ==
    IF def.body = "api_close_order"
    THEN Request(self_signer, api_key, "/pay/closeorder",
                 DictSet(common, P_out_trade_no, Lookup(a, P_out_trade_no)), http)
    ELSE Request(self_signer, api_key, "/secapi/pay/refund",
                 DictUpdate(DictUpdate(common, a), kwargs), http)

OrderNos == {PyStr(V_o1)}
RefundAmounts == {PyInt(1), PyInt(2)}
RefundNos == {None_, PyStr(V_0)}
RefundKwargs == {<<>>, <<Entry(P_refund_desc, PyStr(V_0))>>}

\* the caller's call of a method of the client
ClientCall(name, args) ==
    /\ pc = "request"
    /\ client = "WechatClient"
    /\ frame' = Pending(name, args)
    /\ calls' = <<>>
    /\ pc' = name
    /\ UNCHANGED <<http_resp, dr, resp>>
    /\ DoRequestFrame

\* client.close_order(order_no)
CloseOrder == \E order_no \in OrderNos : ClientCall("close_order", Args(<<order_no>>, <<>>))

\* client.refund(order_no, refund_amount, refund_no=..., **kwargs)
Refund ==
    \E order_no \in OrderNos, refund_amount \in RefundAmounts,
       refund_no \in RefundNos, kwargs \in RefundKwargs :
        ClientCall("refund", Args(<<order_no, refund_amount>>,
                                  <<Entry(P_refund_no, refund_no)>> \o kwargs))

\* the pending call self.<name>(...) is made: the name is looked up in the
\* class, the arguments are bound (TypeError goes up to the caller, no
\* method catching it), and the body runs up to its request or to the
\* self.<name>(...) call it makes, whose result it returns as it is
EnterMethod ==
    /\ pc \in {"close_order", "refund"}
    /\ frame # NoCall
    /\ LET def == Resolve(WechatClientMethods, frame.name)
           b == Bind(def, frame.args)
       IN  IF b.kind = "raise"
           THEN /\ dr' = b
                /\ frame' = NoCall
                /\ UNCHANGED <<http_resp, resp, calls>>
           ELSE IF def.body \in {"iface_close_order", "iface_refund"}
           THEN /\ frame' = InnerCall(def, b.val.bound, b.val.kwargs)
                /\ calls' = Append(calls, CallEvent(def))
                /\ UNCHANGED <<http_resp, resp, dr>>
           ELSE \E http \in HttpResponses(client, inst) :
                   LET r == ApiRequest(def, b.val.bound, b.val.kwargs, inst, key,
                                       params, http)
                   IN  /\ dr' = r.out
                       /\ resp' = r.verdict
                       /\ http_resp' = IF r.events = <<>> THEN NoCall ELSE http
                       /\ calls' = Append(calls, CallEvent(def)) \o r.events
                       /\ frame' = NoCall
    /\ UNCHANGED pc
    /\ DoRequestFrame

(***************************************************************************)
(* HttpClient.request.  One attempt is one pass of the loop                *)
(* "for attempt in range(self.max_retries + 1)": one call of               *)
(* self.session.request, which returns a response or raises.  hc holds     *)
(* the client's max_retries, the loop index, the outcome of every          *)
(* session.request call so far, the number of sleeps, and the outcome of   *)
(* request once it has one.                                                *)
(***************************************************************************)
MaxRetries == 3   \* largest max_retries a client is constructed with

CoreIdle == RegistryIdle /\ SessionIdle /\ StrategyIdle /\ ClientIdle

\* what self.session.request(...) does in one attempt
SessionResponse(status_code) == [t |-> "response", status_code |-> status_code]
SessionTimeout == [t |-> "Timeout"]
SessionConnectionError == [t |-> "ConnectionError"]
SessionRequestException == [t |-> "RequestException"]
SessionOutcomes ==
    {SessionResponse(200), SessionResponse(500), SessionTimeout,
     SessionConnectionError, SessionRequestException}

\* HttpClient.__init__, and the locals of request before its loop
HttpClient_new(max_retries) ==
    [max_retries |-> max_retries, attempt |-> 0, log |-> <<>>, sleeps |-> 0,
     out |-> NoCall]

\* one pass of the loop of an attempt whose session.request ended as o
\* request with one pass more in its loop
HttpClient_attempt_onemore(self, o) ==
    [self EXCEPT !.log = Append(@, o),
                 !.attempt = @ + 1,
                 !.sleeps = IF o.t \in {"Timeout", "ConnectionError"}
                               /\ self.attempt < self.max_retries
                            THEN @ + 1 ELSE @,
                 !.out = IF o.t = "response" THEN Ret(o)
                         ELSE IF o.t = "RequestException"
                         THEN Raise("NetworkError", None_)
                         ELSE IF self.attempt + 1 = self.max_retries + 2
                         THEN Raise("NetworkError", None_)
                         ELSE NoCall]

\* one pass of the loop of HttpClient.request: the response is returned; a
\* Timeout or ConnectionError is kept as last_error, followed by a sleep if
\* an attempt is left, and by NetworkError when the loop is over; another
\* RequestException raises NetworkError
HttpClient_attempt(self, o) ==
    [self EXCEPT !.log = Append(@, o),
                 !.attempt = @ + 1,
                 !.sleeps = IF o.t \in {"Timeout", "ConnectionError"}
                               /\ self.attempt < self.max_retries
                            THEN @ + 1 ELSE @,
                 !.out = IF o.t = "response" THEN Ret(o)
                         ELSE IF o.t = "RequestException"
                         THEN Raise("NetworkError", None_)
                         ELSE IF self.attempt + 1 = self.max_retries + 1
                         THEN Raise("NetworkError", None_)
                         ELSE NoCall]

InitHttp ==
    /\ CoreIdle /\ ExtIdle
    /\ http_resp = NoCall /\ dr = NoCall /\ now = 0
    /\ limiter = NoCall /\ chain = <<>> /\ mw_log = <<>>
    /\ hooks = <<>> /\ hook_run = NoCall /\ calls = <<>> /\ frame = NoCall
    /\ \E max_retries \in 0..MaxRetries : hc = HttpClient_new(max_retries)
    /\ pc = "http"

\* the next attempt of a request that has neither returned nor raised
HttpAttempt ==
    /\ pc = "http"
    /\ hc.out = NoCall
    /\ \E o \in SessionOutcomes : hc' = HttpClient_attempt(hc, o)
    /\ UNCHANGED <<core, ext>>
    /\ UNCHANGED <<http_resp, dr, now, limiter, chain, mw_log, hooks, hook_run, calls, frame>>

NextHttp == HttpAttempt
SpecHttp == InitHttp /\ [][NextHttp]_vars

(***************************************************************************)
(* RateLimiter.  now is the clock time.time() reads; it does not go back.  *)
(* is_allowed reads it twice, in _clean_old_requests and when it appends,  *)
(* and the clock may advance in between.  limiter holds max_requests,      *)
(* window and _requests (key -> list of times); mw_log holds one record    *)
(* per is_allowed call: its key, the time it was answered and its answer.  *)
(***************************************************************************)
MaxClock == 4      \* the clock runs from 0 to MaxClock
MaxAllowedCalls == 4   \* is_allowed calls in one run
MaxRequests == 2   \* largest max_requests of a limiter
MaxWindow == 2     \* largest window of a limiter

K_default == <<100, 101, 102, 97, 117, 108, 116>>   \* "default"
LimiterKeys == {K_default, K_k1}

\* RateLimiter.__init__
RateLimiter_new(max_requests, window) ==
    [max_requests |-> max_requests, window |-> window, requests |-> <<>>]

\* RateLimiter._clean_old_requests, time.time() giving current_time
RateLimiter_clean_old_requests(self, k, current_time) ==
    IF HasKey(self.requests, k)
    THEN LET recent(req_time) == current_time - req_time < self.window
         IN  [self EXCEPT !.requests =
                 DictSet(@, k, SelectSeq(Lookup(self.requests, k), recent))]
    ELSE self

IsAllowed(self, answer) == [self |-> self, answer |-> answer]

\* RateLimiter.is_allowed with ">" for ">="
RateLimiter_is_allowed_gt(self, k, t1, t2) ==
    LET cleaned == RateLimiter_clean_old_requests(self, k, t1)
        listed == IF HasKey(cleaned.requests, k) THEN cleaned
                  ELSE [cleaned EXCEPT !.requests = DictSet(@, k, <<>>)]
        times == Lookup(listed.requests, k)
    IN  IF Len(times) > self.max_requests THEN IsAllowed(listed, FALSE)
        ELSE IsAllowed([listed EXCEPT !.requests = DictSet(@, k, Append(times, t2))],
                       TRUE)

\* RateLimiter.is_allowed; t1 and t2 are the two readings of the clock
RateLimiter_is_allowed(self, k, t1, t2) ==
    LET cleaned == RateLimiter_clean_old_requests(self, k, t1)
        listed == IF HasKey(cleaned.requests, k) THEN cleaned
                  ELSE [cleaned EXCEPT !.requests = DictSet(@, k, <<>>)]
        times == Lookup(listed.requests, k)
    IN  IF Len(times) >= self.max_requests THEN IsAllowed(listed, FALSE)
        ELSE IsAllowed([listed EXCEPT !.requests = DictSet(@, k, Append(times, t2))],
                       TRUE)

AllowedCall(k, time, answer) == [key |-> k, time |-> time, answer |-> answer]

InitLimiter ==
    /\ CoreIdle /\ ExtIdle
    /\ http_resp = NoCall /\ dr = NoCall /\ hc = NoCall
    /\ chain = <<>> /\ hooks = <<>> /\ hook_run = NoCall /\ calls = <<>> /\ frame = NoCall
    /\ now = 0
    /\ \E max_requests \in 1..MaxRequests, window \in 1..MaxWindow :
          limiter = RateLimiter_new(max_requests, window)
    /\ mw_log = <<>>
    /\ pc = "limiter"

LimiterFrame ==
    /\ UNCHANGED <<core, ext>>
    /\ UNCHANGED <<http_resp, dr, hc, chain, hooks, hook_run, calls, frame>>

\* time passes between two calls
Tick ==
    /\ pc = "limiter"
    /\ now < MaxClock
    /\ now' = now + 1
    /\ UNCHANGED <<limiter, mw_log>>
    /\ LimiterFrame

\* limiter.is_allowed(key), the clock advancing by d between its readings
LimiterIsAllowed ==
    /\ pc = "limiter"
    /\ Len(mw_log) < MaxAllowedCalls
    /\ \E k \in LimiterKeys, d \in {0, 1} :
          /\ now + d <= MaxClock
          /\ LET r == RateLimiter_is_allowed(limiter, k, now, now + d)
             IN  /\ limiter' = r.self
                 /\ mw_log' = Append(mw_log, AllowedCall(k, now + d, r.answer))
          /\ now' = now + d
    /\ LimiterFrame

NextLimiter == Tick \/ LimiterIsAllowed
SpecLimiter == InitLimiter /\ [][NextLimiter]_vars

(***************************************************************************)
(* MiddlewareChain and the four middlewares.  chain is _middlewares, an    *)
(* entry being the class of the middleware added; the RateLimiter added    *)
(* is the one instance limiter, the AuthMiddleware one instance that       *)
(* knows the key "k1".  A call applies the chain to a function and calls   *)
(* the result with keyword arguments; mw_log holds one record per call:    *)
(* the chain and kwargs of the call, what ran (in order) and the outcome.  *)
(***************************************************************************)
MaxChain == 3        \* middlewares added to one chain
MaxChainCalls == 2   \* calls through one chain

F_api_key == <<97, 112, 105, 95, 107, 101, 121>>   \* "api_key"
MiddlewareClasses == {"ErrorHandler", "AuthMiddleware", "LoggingMiddleware", "RateLimiter"}
AuthApiKeys == {PyStr(K_k1)}

\* ApiResponse.error
ApiResponse_error(msg, code) == [code |-> code, msg |-> msg]
\* ApiResponse.success
ApiResponse_success == ApiResponse_error("Success", "0")
\* ApiResponse.unauthorized
ApiResponse_unauthorized(msg) == ApiResponse_error(msg, "401")
\* ApiResponse.server_error
ApiResponse_server_error(msg) == ApiResponse_error(msg, "500")

\* AuthMiddleware.verify
AuthMiddleware_verify(api_key) == api_key \in AuthApiKeys

\* MiddlewareChain.add
MiddlewareChain_add(mws, middleware) == Append(mws, middleware)

Middleware(cls, pos) == [cls |-> cls, pos |-> pos]
EnterEvent(m) == [e |-> "enter", cls |-> m.cls, pos |-> m.pos]
RejectEvent(m) == [e |-> "reject", cls |-> m.cls, pos |-> m.pos]
CountEvent(k, answer) == [e |-> "is_allowed", key |-> k, answer |-> answer]
FuncEvent(kwargs) == [e |-> "func", kwargs |-> kwargs]
LogEvent(what) == [e |-> what]

RECURSIVE Reversed(_)
\* reversed(seq)
Reversed(seq) == IF seq = <<>> THEN <<>> ELSE Append(Reversed(Tail(seq)), Head(seq))

RECURSIVE ApplyLoop(_, _)
\* "for middleware in order: func = middleware.<decorator>(func)"; a
\* function is given by its wrappers, the outermost first
ApplyLoop(order, func) ==
    IF order = <<>> THEN func
    ELSE ApplyLoop(Tail(order), <<Head(order)>> \o func)

\* MiddlewareChain.apply without reversed()
MiddlewareChain_apply_inorder(mws) ==
    ApplyLoop([i \in 1..Len(mws) |-> Middleware(mws[i], i)], <<>>)

\* MiddlewareChain.apply
MiddlewareChain_apply(mws) ==
    ApplyLoop(Reversed([i \in 1..Len(mws) |-> Middleware(mws[i], i)]), <<>>)

Called(out, events, lim) == [out |-> out, events |-> events, limiter |-> lim]

RECURSIVE CallWrapped(_, _, _, _, _)
\* func(**kwargs) for a function with wrappers ws; raises says whether the
\* wrapped function raises; t is the clock
CallWrapped(ws, kwargs, lim, raises, t) ==
    IF ws = <<>>
    THEN Called(IF raises THEN Raise("Exception", None_) ELSE Ret(ApiResponse_success),
                <<FuncEvent(kwargs)>>, lim)
    ELSE
    LET m == Head(ws)
        enter == <<EnterEvent(m)>>
    IN  CASE m.cls = "ErrorHandler" ->
               LET r == CallWrapped(Tail(ws), kwargs, lim, raises, t)
               IN  Called(IF r.out.kind = "raise"
                          THEN Ret(ApiResponse_server_error("exception"))
                          ELSE r.out,
                          enter \o r.events, r.limiter)
          [] m.cls = "AuthMiddleware" ->
               LET api_key == DictGet(kwargs, F_api_key)
                   rest == DictDel(kwargs, F_api_key)
                   r == CallWrapped(Tail(ws), rest, lim, raises, t)
               IN  IF ~Truthy(api_key)
                   THEN Called(Ret(ApiResponse_unauthorized("missing api key")),
                               enter \o <<RejectEvent(m)>>, lim)
                   ELSE IF ~AuthMiddleware_verify(api_key)
                   THEN Called(Ret(ApiResponse_unauthorized("invalid api key")),
                               enter \o <<RejectEvent(m)>>, lim)
                   ELSE Called(r.out, enter \o r.events, r.limiter)
          [] m.cls = "LoggingMiddleware" ->
               LET r == CallWrapped(Tail(ws), kwargs, lim, raises, t)
               IN  Called(r.out,
                          enter \o <<LogEvent("log_request")>> \o r.events
                                \o (IF r.out.kind = "raise" THEN <<>>
                                    ELSE <<LogEvent("log_response")>>),
                          r.limiter)
          [] m.cls = "RateLimiter" ->
               LET k == IF HasKey(kwargs, F_api_key)
                        THEN Lookup(kwargs, F_api_key).s ELSE K_default
                   a == RateLimiter_is_allowed(lim, k, t, t)
                   r == CallWrapped(Tail(ws), kwargs, a.self, raises, t)
               IN  IF ~a.answer
                   THEN Called(Ret(ApiResponse_error("too many requests", "429")),
                               enter \o <<CountEvent(k, FALSE), RejectEvent(m)>>, a.self)
                   ELSE Called(r.out, enter \o <<CountEvent(k, TRUE)>> \o r.events,
                               r.limiter)

ChainCallRecord(mws, kwargs, r) ==
    [chain |-> mws, kwargs |-> kwargs, events |-> r.events, out |-> r.out]

CallKwargs ==
    {<<>>, <<Entry(F_api_key, PyStr(K_k1))>>, <<Entry(F_api_key, PyStr(W_wrong))>>}

InitChain ==
    /\ CoreIdle /\ ExtIdle
    /\ http_resp = NoCall /\ dr = NoCall /\ hc = NoCall
    /\ hooks = <<>> /\ hook_run = NoCall /\ calls = <<>> /\ frame = NoCall
    /\ now = 0
    /\ limiter = RateLimiter_new(1, MaxWindow)   \* one request per key and window
    /\ chain = <<>>
    /\ mw_log = <<>>
    /\ pc = "chain"

ChainFrame ==
    /\ UNCHANGED <<core, ext>>
    /\ UNCHANGED <<http_resp, dr, hc, now, hooks, hook_run, calls, frame>>

\* chain.add(middleware)
ChainAdd ==
    /\ pc = "chain"
    /\ Len(chain) < MaxChain
    /\ \E cls \in MiddlewareClasses : chain' = MiddlewareChain_add(chain, cls)
    /\ UNCHANGED <<limiter, mw_log>>
    /\ ChainFrame

\* chain.apply(func)(**kwargs)
ChainCall ==
    /\ pc = "chain"
    /\ Len(mw_log) < MaxChainCalls
    /\ \E kwargs \in CallKwargs, raises \in BOOLEAN :
          LET r == CallWrapped(MiddlewareChain_apply(chain), kwargs, limiter, raises, now)
          IN  /\ limiter' = r.limiter
              /\ mw_log' = Append(mw_log, ChainCallRecord(chain, kwargs, r))
    /\ UNCHANGED chain
    /\ ChainFrame

NextChain == ChainAdd \/ ChainCall
SpecChain == InitChain /\ [][NextChain]_vars

(***************************************************************************)
(* BaseApiHandler: hooks.  hooks is self._hooks, event name -> list of     *)
(* hooks; a hook is given by the rank of its registration and by whether   *)
(* it raises.  hook_run is the last _execute_with_hooks call: the hooks    *)
(* registered when it was made, the operation, what the function did, the  *)
(* calls made in order, and the outcome.                                   *)
(***************************************************************************)
MaxHooks == 3   \* hooks registered with one handler

Operations == {"create_order", "query_order"}
HookEvents == {"before_" \o op : op \in Operations} \cup {"after_" \o op : op \in Operations}

Hook(id, raises) == [id |-> id, raises |-> raises]
HookCall(event, hook, flag) == [e |-> "hook", event |-> event, id |-> hook.id, flag |-> flag]
OperationCall == [e |-> "func"]

\* the number of hooks registered so far
RECURSIVE HookCount(_)
HookCount(hs) == IF hs = <<>> THEN 0 ELSE Len(hs[1].v) + HookCount(Tail(hs))

\* BaseApiHandler.register_hook
BaseApiHandler_register_hook(self_hooks, event, hook) ==
    IF HasKey(self_hooks, event)
    THEN DictSet(self_hooks, event, Append(Lookup(self_hooks, event), hook))
    ELSE DictSet(self_hooks, event, <<hook>>)

RECURSIVE HooksUntilRaise(_, _, _)
HooksUntilRaise(hs, event, flag) ==
    IF hs = <<>> THEN <<>>
    ELSE IF hs[1].raises THEN <<HookCall(event, hs[1], flag)>>
    ELSE <<HookCall(event, hs[1], flag)>> \o HooksUntilRaise(Tail(hs), event, flag)

\* _execute_hooks with the try around the loop
BaseApiHandler_execute_hooks_tryloop(self_hooks, hook_name, flag) ==
    IF HasKey(self_hooks, hook_name)
    THEN HooksUntilRaise(Lookup(self_hooks, hook_name), hook_name, flag)
    ELSE <<>>

\* BaseApiHandler._execute_hooks: the hooks it calls, each exception of a
\* hook being caught and logged; flag is the success flag the after-hooks
\* are given (None_ for a before-hook)
BaseApiHandler_execute_hooks(self_hooks, hook_name, flag) ==
    IF HasKey(self_hooks, hook_name)
    THEN LET hs == Lookup(self_hooks, hook_name)
         IN  [i \in 1..Len(hs) |-> HookCall(hook_name, hs[i], flag)]
    ELSE <<>>

FuncBehaviours == {"response", "other", "raise"}

HookRun(registered, operation, func, events, out) ==
    [registered |-> registered, operation |-> operation, func |-> func,
     events |-> events, out |-> out]

\* BaseApiHandler._execute_with_hooks; func is what the operation does:
\* return an ApiResponse, return another value, or raise
BaseApiHandler_execute_with_hooks(self_hooks, operation, func) ==
    LET before == BaseApiHandler_execute_hooks(self_hooks, "before_" \o operation, None_)
        after_ok == BaseApiHandler_execute_hooks(self_hooks, "after_" \o operation, PyBool(TRUE))
        after_failed == BaseApiHandler_execute_hooks(self_hooks, "after_" \o operation, PyBool(FALSE))
    IN  IF func = "raise"
        THEN HookRun(self_hooks, operation, func, before \o <<OperationCall>> \o after_failed,
                     Ret(ApiResponse_server_error("exception")))
        ELSE HookRun(self_hooks, operation, func, before \o <<OperationCall>> \o after_ok,
                     Ret(IF func = "response" THEN ApiResponse_success ELSE None_))

InitHooks ==
    /\ CoreIdle /\ ExtIdle
    /\ http_resp = NoCall /\ dr = NoCall /\ hc = NoCall /\ now = 0
    /\ limiter = NoCall /\ chain = <<>> /\ mw_log = <<>> /\ calls = <<>> /\ frame = NoCall
    /\ hooks = <<>>
    /\ hook_run = NoCall
    /\ pc = "hooks"

HooksFrame ==
    /\ UNCHANGED <<core, ext>>
    /\ UNCHANGED <<http_resp, dr, hc, now, limiter, chain, mw_log, calls, frame>>

\* handler.register_hook(event, hook)
RegisterHook ==
    /\ pc = "hooks"
    /\ HookCount(hooks) < MaxHooks
    /\ \E event \in HookEvents, raises \in BOOLEAN :
          hooks' = BaseApiHandler_register_hook(hooks, event,
                                                Hook(HookCount(hooks) + 1, raises))
    /\ UNCHANGED hook_run
    /\ HooksFrame

\* handler._execute_with_hooks(operation, func)
ExecuteWithHooks ==
    /\ pc = "hooks"
    /\ \E operation \in Operations, func \in FuncBehaviours :
          hook_run' = BaseApiHandler_execute_with_hooks(hooks, operation, func)
    /\ UNCHANGED hooks
    /\ HooksFrame

NextHooks == RegisterHook \/ ExecuteWithHooks
SpecHooks == InitHooks /\ [][NextHooks]_vars

(***************************************************************************)
(* Construction against later registrations.  A client or notify handler   *)
(* is constructed for sign_type (self.signer = SignerFactory.get_signer);  *)
(* register_signer runs before or after; the instance signs (a client) or  *)
(* verifies (a handler) with self.signer, and sign_params / verify_params  *)
(* are called directly.  got keeps what get_signer gave the constructor.   *)
(***************************************************************************)
InitCapture ==
    /\ RegistryIdle /\ StrategyIdle /\ ExtIdle /\ Ext2Idle
    /\ signed = <<>> /\ tamper = "none" /\ call = NoSign /\ call2 = NoSign
    /\ vkey = None_ /\ result = NoCall /\ resp = NoCall /\ notif = NoCall
    /\ client \in Clients \cup Handlers
    /\ sign_type \in ConfigSignTypes
    /\ key = PyStr(K_k1)
    /\ params \in RequestParams
    /\ pc = "config"

\* AlipayClient(config) / WechatClient(config) / XNotifyHandler(key, sign_type)
Construct ==
    /\ pc = "config"
    /\ got' = get_signer(signers, sign_type)
    /\ inst' = get_signer(signers, sign_type).val
    /\ pc' = "ready"
    /\ UNCHANGED <<ext, ext2>>
    /\ UNCHANGED <<signers, regs, params, key, sign_type, call, call2, signed,
                   tamper, vkey, result, data, claimed, client, resp, notif>>

\* SignerFactory.register_signer(id, signer), before or after construction
RegisterAround ==
    /\ pc \in {"config", "ready"}
    /\ Len(regs) < MaxRegistrations
    /\ \E id \in {sign_type, N_NOPE}, signer \in NewInstances :
          /\ signers' = register_signer(signers, id, signer)
          /\ regs' = Append(regs, [id |-> id, signer |-> signer])
    /\ UNCHANGED <<ext, ext2>>
    /\ UNCHANGED <<got, params, key, sign_type, pc, call, call2, signed, tamper, vkey,
                   result, inst, data, claimed, client, resp, notif>>

\* what the instance does with strategy self_signer: a client signs
\* params, a handler verifies the signature signed_ of params
InstanceUse(c, self_signer, cred, params_, signed_) ==
    CASE c = "AlipayClient" -> AlipayClient_sign_request(self_signer, cred, params_)
      [] c = "WechatClient" -> WechatClient_sign_params(self_signer, cred, params_)
      [] OTHER -> Handler_verify(c, self_signer, cred, params_, signed_)

\* the signature the sender of a notification computed (MD5 under the key)
SenderSignature == MD5Signer_sign(ParamStr(params), key).val

\* an instance that looks its strategy up at every use
UseInstance_lookup ==
    /\ pc = "ready"
    /\ call' = [param_str |-> ParamStr(params),
                out |-> InstanceUse(client, get_signer(signers, sign_type).val, key,
                                    params, SenderSignature)]
    /\ UNCHANGED <<ext, ext2>>
    /\ UNCHANGED <<signers, regs, got, params, key, sign_type, pc, call2, signed,
                   tamper, vkey, result, inst, data, claimed, client, resp, notif>>

\* client._sign_request / client._sign_params / handler.verify
UseInstance ==
    /\ pc = "ready"
    /\ call' = [param_str |-> ParamStr(params),
                out |-> InstanceUse(client, inst, key, params, SenderSignature)]
    /\ UNCHANGED <<ext, ext2>>
    /\ UNCHANGED <<signers, regs, got, params, key, sign_type, pc, call2, signed,
                   tamper, vkey, result, inst, data, claimed, client, resp, notif>>

\* sign_params(params, key, sign_type) and verify_params of a signed copy
UseFactory ==
    /\ pc \in {"config", "ready"}
    /\ call2' = [param_str |-> ParamStr(params),
                 out |-> sign_params(signers, params, key, sign_type)]
    /\ result' = verify_params(signers, DictSet(params, S_sign, SenderSignature),
                               key, sign_type)
    /\ UNCHANGED <<ext, ext2>>
    /\ UNCHANGED <<signers, regs, got, params, key, sign_type, pc, call, signed,
                   tamper, vkey, inst, data, claimed, client, resp, notif>>

NextCapture == Construct \/ RegisterAround \/ UseInstance \/ UseFactory
SpecCapture == InitCapture /\ [][NextCapture]_vars

(***************************************************************************)
(* Properties of sign_params / verify_params (checked under Spec).         *)
(***************************************************************************)
TRUE_ == Ret(PyBool(TRUE))
FALSE_ == Ret(PyBool(FALSE))
Registered(t) == Upper(t) \in DOMAIN BuiltinSigners
Symmetric(t) == Upper(t) \in {N_MD5, N_HMAC}

\* what the receiver holds for a signing credential: the shared secret for
\* the symmetric strategies, the public key of the pair for RSA
MatchingMaterial(t, k) ==
    IF Upper(t) \in {N_RSA, N_RSA2} /\ k = PyStr(PrivPemA) THEN PyStr(PubPemA) ELSE k

\* the dict verified is the dict that was signed plus its signature
Untouched ==
    /\ call.out.kind = "ret"
    /\ tamper = "none"
    /\ params = DictSet(signed, S_sign, call.out.val)

\* C1: round-trip authenticity.  For every parameter set, registered
\* algorithm and credential that signs, verify_params on the set plus its
\* signature, with the matching verification material, returns True.
C1_RoundTrip ==
    (pc = "verified" /\ Untouched /\ Registered(sign_type)
        /\ vkey = MatchingMaterial(sign_type, key))
    => result = TRUE_

\* what an entry contributes to the canonical string: nothing, or its text
Contribution(d, k) ==
    IF HasKey(d, k) /\ Kept(Entry(k, Lookup(d, k)))
    THEN <<Format(Lookup(d, k))>> ELSE <<>>
RenderingChanged ==
    \E k \in FieldNames \ {S_sign} : Contribution(signed, k) # Contribution(params, k)

\* C2 as stated: after any single-character change of the stored signature or
\* any change of one non-sign value, verify_params (same key, same algorithm)
\* returns False.
C2_AnyChangeDetected ==
    (pc = "verified" /\ tamper \in {"sign", "field"} /\ vkey = key)
    => result = FALSE_

\* C2 amended: tamper detection.  verify_params (same key, same algorithm)
\* returns False after a single-character change of the stored signature, and
\* after a change of one non-sign value that changes what the entry contributes
\* to the canonical string (None and "" both contribute nothing; other values
\* contribute their string form).
C2_TamperDetected ==
    (pc = "verified" /\ vkey = key
        /\ (tamper = "sign" \/ (tamper = "field" /\ RenderingChanged)))
    => result = FALSE_

C2_Witness ==
    /\ pc = "verified" /\ vkey = key /\ tamper = "field" /\ RenderingChanged
    /\ result = FALSE_

\* C3: determinism.  The canonical string built by sign_params does not
\* depend on the insertion order of the entries, and a second sign_params
\* call on the same filtered entries with the same secret and a symmetric
\* algorithm returns the identical signature.
C3_Determinism ==
    pc = "resigned" =>
        /\ call2.param_str = call.param_str
        /\ (Symmetric(sign_type) => call2.out = call.out)

C3_Witness ==
    /\ pc = "resigned"
    /\ Len(params) = 2 /\ Len(signed) = 2 /\ params # signed
    /\ \A i \in 1..2 : Populated(signed[i])
    /\ Symmetric(sign_type)
    /\ call.out.kind = "ret" /\ call2.out = call.out

\* the canonical string cut at every "&"
RECURSIVE Split(_)
Split(s) ==
    IF s = <<>> THEN <<>>
    ELSE LET amps == {i \in 1..Len(s) : s[i] = S_amp[1]}
         IN  IF amps = {} THEN <<s>>
             ELSE LET i == CHOOSE x \in amps : \A y \in amps : x <= y
                  IN  <<SubSeq(s, 1, i - 1)>> \o
                      (IF i = Len(s) THEN <<<<>>>> ELSE Split(SubSeq(s, i + 1, Len(s))))
HasPrefix(s, pre) == Len(s) >= Len(pre) /\ SubSeq(s, 1, Len(pre)) = pre
Occurrences(segs, x) == Cardinality({i \in 1..Len(segs) : segs[i] = x})

\* C4: filtering.  The canonical string signed by sign_params has no entry
\* for a field whose value was None or "", none for the field "sign", and
\* exactly one entry name=value for every other field (0 and False included).
C4_Filtering ==
    pc = "signed" =>
        LET segs == Split(call.param_str)
            dropped(e) == e.v = None_ \/ e.v = PyStr(<<>>) \/ e.k = S_sign
        IN  /\ \A i \in 1..Len(signed) :
                IF dropped(signed[i])
                THEN \A j \in 1..Len(segs) : ~HasPrefix(segs[j], signed[i].k \o S_eq)
                ELSE Occurrences(segs, signed[i].k \o S_eq \o Format(signed[i].v)) = 1
            /\ Len(segs) = Cardinality({i \in 1..Len(signed) : ~dropped(signed[i])})

C4_Witness ==
    /\ pc = "signed"
    /\ \E i \in 1..Len(signed) : signed[i].v \in {PyInt(0), PyBool(FALSE)} /\ signed[i].k # S_sign
    /\ \E i \in 1..Len(signed) : signed[i].v \in {None_, PyStr(<<>>)}
    /\ call.param_str # <<>>

\* C7: unknown algorithm.  With an identifier that is not registered,
\* sign_params and verify_params raise SignError for every parameter set.
C7_UnknownAlgorithm ==
    /\ (pc = "signed" /\ ~Registered(sign_type))
          => call.out = Raise("SignError", PyStr(sign_type))
    /\ (pc = "verified" /\ ~Registered(sign_type))
          => result = Raise("SignError", PyStr(sign_type))

(***************************************************************************)
(* Properties of the strategies (checked under SpecStrategy).              *)
(***************************************************************************)
\* C5: Signer.verify of every built-in strategy returns a boolean and never
\* raises, whatever the data, signature and credential.
C5_VerifyNeverRaises ==
    pc = "verified" => (result.kind = "ret" /\ result.val.t = "bool")

\* a credential RSASigner cannot load as a private key
Unloadable(k) == RSASigner_load_private_key(k) = NoKey

\* C8: sign of every built-in strategy raises SignError when the credential
\* is absent (None or "") or malformed.
C8_SignRaisesOnBadCredential ==
    (pc = "signed"
        /\ (key \in {None_, PyStr(<<>>)} \/ (inst.cls = "RSASigner" /\ Unloadable(key))))
    => (call.out.kind = "raise" /\ call.out.exc = "SignError")

(***************************************************************************)
(* Properties of the registry (checked under SpecRegistry).                *)
(***************************************************************************)
SameText(a, b) == a = b
SameUpToCase(a, b) == Upper(a) = Upper(b)

\* the instance registered last under an identifier that matches id (up to
\* letter case when fold is TRUE), the built-in binding when there is none
RECURSIVE LastRegistered(_, _, _)
LastRegistered(history, id, fold) ==
    IF history = <<>> THEN get_signer(BuiltinSigners, id)
    ELSE LET last == history[Len(history)]
         IN  IF (fold /\ SameUpToCase(last.id, id)) \/ (~fold /\ SameText(last.id, id))
             THEN Ret(last.signer)
             ELSE LastRegistered(SubSeq(history, 1, Len(history) - 1), id, fold)

\* C9 as stated: get_signer(id) returns the instance registered last under
\* id, and a registration leaves the binding of every other identifier
\* unchanged.
C9_LastWriteWinsExact ==
    /\ got.kind = "get" => got.out = LastRegistered(regs, got.arg, FALSE)
    /\ got.kind = "register" =>
          \A id \in RegistryIds \ {got.arg} :
              get_signer(signers, id) = get_signer(got.before, id)

\* C9 amended: identifiers are compared after upper-casing.  get_signer(id)
\* returns the instance registered last under an identifier equal to id up
\* to letter case (the built-in binding, or SignError, when there is none),
\* and a registration leaves unchanged the binding of every identifier that
\* differs from it in more than letter case.
C9_LastWriteWins ==
    /\ got.kind = "get" => got.out = LastRegistered(regs, got.arg, TRUE)
    /\ got.kind = "register" =>
          \A id \in RegistryIds :
              ~SameUpToCase(id, got.arg) =>
                  get_signer(signers, id) = get_signer(got.before, id)

C9_Witness ==
    /\ got.kind = "get"
    /\ Len(regs) = 2
    /\ SameUpToCase(regs[1].id, got.arg) /\ SameUpToCase(regs[2].id, got.arg)
    /\ regs[1].signer # regs[2].signer
    /\ got.out = Ret(regs[2].signer)

\* C11: for every registered algorithm and every parameter set with a sign
\* field, verify_params(params, material, algo) returns exactly what the
\* resolved strategy's verify(canonical string, params["sign"], material)
\* returns (which is what verify_sign returns for those arguments).
C11_VerifyParamsIsStrategyVerify ==
    (pc = "verified" /\ Registered(sign_type) /\ HasKey(params, S_sign)) =>
        result = verify_sign(signers, ParamStr(params), Lookup(params, S_sign),
                             vkey, sign_type)

\* the symmetric part of C11, which the code does satisfy
C11_SymmetricPart ==
    (pc = "verified" /\ Symmetric(sign_type) /\ HasKey(params, S_sign)) =>
        result = verify_sign(signers, ParamStr(params), Lookup(params, S_sign),
                             vkey, sign_type)

(***************************************************************************)
(* Properties of the clients and handlers (checked under SpecClient).      *)
(***************************************************************************)
\* C6: no verification routine reports True when its verification
\* credential is absent (None or ""), whatever the payload and signature.
C6_NoTrueWithoutCredential ==
    key \in {None_, PyStr(<<>>)} => (resp # TRUE_ /\ notif # TRUE_)

\* C10: for the same client configuration, payload and claimed signature,
\* _verify_response and verify_notify return the same boolean.
C10_SameVerdict ==
    (client \in Clients /\ resp # NoCall /\ notif # NoCall) => resp = notif

(***************************************************************************)
(* Properties of NotifyProcessor.process (checked under SpecNotify).       *)
(***************************************************************************)
HasEvent(run, e) == \E i \in 1..Len(run.events) : run.events[i] = e
EventCount(run, e) == Cardinality({i \in 1..Len(run.events) : run.events[i] = e})

\* what the handler makes of the raw notification, stated on the input
Unparseable == Handler_parse(client, raw_data).kind = "raise"
Received == Handler_parse(client, raw_data).val
SignPresent ==
    /\ ~Unparseable
    /\ HasKey(Received, S_sign)
    /\ Lookup(Received, S_sign) \notin {None_, PyStr(<<>>)}
Verified ==
    /\ SignPresent
    /\ Handler_verify(client, inst, key, Received, Lookup(Received, S_sign))
         = Ret(PyBool(TRUE))
FailResponses == {fail_response(client, m) : m \in Messages}

\* C12: process never propagates an exception; it returns the handler's
\* fail response for unparseable data, a missing or empty sign field, a
\* signature the handler rejects, and a callback that raises or returns
\* False; it returns the success response only when the signature verified
\* and the callback neither raised nor returned False.
C12_ProcessNeverRaises ==
    \A i \in 1..Len(runs) :
        /\ runs[i].out.kind = "ret"
        /\ runs[i].out.val \in FailResponses \cup {success_response(client)}
        /\ (Unparseable \/ ~SignPresent \/ ~Verified
              \/ callback \in {"raises", "returns_false"})
             => runs[i].out.val \in FailResponses
        /\ runs[i].out.val = success_response(client)
             => (Verified /\ callback \notin {"raises", "returns_false"})

C12_Witness ==
    /\ Len(runs) >= 1
    /\ Verified /\ callback = "raises"
    /\ HasEvent(runs[1], "callback")
    /\ runs[1].out = Ret(fail_response(client, M_callback_exception))

C20_CallbackOnlyAfterVerify ==
    \A i \in 1..Len(runs) :
        /\ EventCount(runs[i], "callback") <= 1
        /\ \A n \in 1..Len(runs[i].events) :
              runs[i].events[n] = "callback" =>
                  /\ SignPresent /\ Verified
                  /\ \E m \in 1..(n - 1) : runs[i].events[m] = "verify_true"
        /\ (Unparseable \/ ~SignPresent \/ ~Verified) => ~HasEvent(runs[i], "callback")

C20_Witness ==
    /\ Len(runs) >= 1
    /\ raw_data.t = "str"
    /\ runs[1].events = <<"parse_ok", "verify_true", "callback">>

(***************************************************************************)
(* Properties of concurrent callers (checked under SpecThreads).           *)
(***************************************************************************)
\* what the call of thread th returns when it runs alone
Alone(th) ==
    CASE th.op = "get_signer" -> get_signer(BuiltinSigners, th.sign_type)
      [] th.op = "sign_params" ->
            sign_params(BuiltinSigners, th.params, th.key, th.sign_type)
      [] th.op = "verify_params" ->
            verify_params(BuiltinSigners, th.params, th.key, th.sign_type)

\* C14: in every interleaving of concurrent sign_params, verify_params and
\* get_signer calls with no register_signer, each call returns what it
\* returns when run alone, and the registry bindings are unchanged.
C14_ConcurrentCallsIndependent ==
    pc = "threads" =>
        /\ signers = BuiltinSigners
        /\ \A t \in DOMAIN threads :
              threads[t].pc = "done" => threads[t].out = Alone(threads[t])

C14_Witness ==
    /\ pc = "threads"
    /\ \A t \in DOMAIN threads : threads[t].pc = "done"
    /\ \E t, u \in DOMAIN threads :
          /\ threads[t].op = "sign_params" /\ threads[t].out.kind = "ret"
          /\ threads[u].op = "verify_params" /\ threads[u].out = Ret(PyBool(TRUE))

(***************************************************************************)
(* RSA key pairs (checked under SpecStrategy).                             *)
(***************************************************************************)
IsPublicKey(k) == RSASigner_load_public_key(k) # NoKey
BelongsTo(pub, priv) == RSASigner_load_public_key(pub) = RSASigner_load_private_key(priv)

\* C15: for RSASigner with either digest and every data string,
\* verify(data, sign(data, private_key), public_key) is True when
\* public_key belongs to private_key and False for any other public key.
C15_RSAKeyPair ==
    (/\ pc = "verified" /\ inst.cls = "RSASigner"
     /\ call.out.kind = "ret" /\ claimed = call.out.val
     /\ IsPublicKey(vkey)) =>
        result = Ret(PyBool(BelongsTo(vkey, key)))

C15_Witness ==
    /\ pc = "verified" /\ inst.cls = "RSASigner" /\ inst.algorithm = N_RSA
    /\ data = D_abc
    /\ call.out.kind = "ret" /\ claimed = call.out.val
    /\ IsPublicKey(vkey) /\ BelongsTo(vkey, key)
    /\ result = Ret(PyBool(TRUE))

\* the other half of C15's case: another public key, and the answer False
C15_OtherKeyCase ==
    /\ pc = "verified" /\ inst.cls = "RSASigner" /\ inst.algorithm = N_RSA2
    /\ call.out.kind = "ret" /\ claimed = call.out.val
    /\ IsPublicKey(vkey) /\ ~BelongsTo(vkey, key)
    /\ result = Ret(PyBool(FALSE))

(***************************************************************************)
(* Errors of request signing (checked under SpecSignRequest).              *)
(***************************************************************************)
NamesAlgorithm(out) ==
    /\ out.exc = "SignError"
    /\ out.sign_type.t = "str"
    /\ Upper(out.sign_type.s) = Upper(sign_type)

\* C16: every SignError raised while signing a request (unknown identifier,
\* missing secret or private key, malformed credential, strategy failure)
\* carries in its sign_type attribute the algorithm identifier in use.
C16_SignErrorNamesAlgorithm ==
    (pc \in {"failed", "requested"} /\ call.out.kind = "raise") =>
        NamesAlgorithm(call.out)

\* the errors of C16 that do carry the identifier: those of the registry
\* and of the strategies
C16_StrategyErrorsNameAlgorithm ==
    (pc \in {"failed", "requested"} /\ call.out.kind = "raise" /\ Truthy(key)) =>
        NamesAlgorithm(call.out)

(***************************************************************************)
(* Properties of ConfigManager (checked under SpecConfig).                 *)
(***************************************************************************)
\* what get(name) owes after the calls of history: the configuration of the
\* last register of name that went through, unless a remove of name came
\* after it
RECURSIVE ExpectedConfig(_, _)
ExpectedConfig(history, name) ==
    IF history = <<>> THEN Raise("ConfigError", None_)
    ELSE LET last == history[Len(history)]
             rest == SubSeq(history, 1, Len(history) - 1)
         IN  IF last.name # name THEN ExpectedConfig(rest, name)
             ELSE IF last.op = "remove" THEN Raise("ConfigError", None_)
             ELSE IF last.out.kind = "raise" THEN ExpectedConfig(rest, name)
             ELSE Ret(last.config)

Listed(out) == {out.val[i] : i \in 1..Len(out.val)}

\* C17: after any sequence of register and remove calls, get(name) returns
\* the configuration most recently registered under name if it has not been
\* removed since and raises ConfigError otherwise; list_configs returns
\* exactly the names for which get succeeds; remove of an unknown name
\* changes nothing.
C17_ConfigManager ==
    pc = "config_manager" =>
        /\ \A name \in ConfigNames :
              ConfigManager_get(configs, name) = ExpectedConfig(cfg_hist, name)
        /\ cfg_got.kind = "get" => cfg_got.out = ExpectedConfig(cfg_hist, cfg_got.arg)
        /\ cfg_got.kind = "list" =>
              /\ Listed(cfg_got.out) =
                   {name \in ConfigNames : ConfigManager_get(configs, name).kind = "ret"}
              /\ Len(cfg_got.out.val) = Cardinality(Listed(cfg_got.out))
        /\ (cfg_got.kind = "remove" /\ ~HasKey(cfg_got.before, cfg_got.arg)) =>
              configs = cfg_got.before

C17_Witness ==
    /\ pc = "config_manager"
    /\ Len(cfg_hist) = 3
    /\ cfg_hist[1].op = "register" /\ cfg_hist[2].op = "register"
    /\ cfg_hist[1].name = cfg_hist[2].name
    /\ cfg_hist[1].config # cfg_hist[2].config
    /\ cfg_hist[2].out.kind = "ret"
    /\ cfg_hist[3].op = "remove" /\ cfg_hist[3].name # cfg_hist[1].name
    /\ cfg_got.kind = "get" /\ cfg_got.arg = cfg_hist[1].name
    /\ cfg_got.out = Ret(cfg_hist[2].config)

(***************************************************************************)
(* Properties of BodyMap (checked under SpecBody).                         *)
(***************************************************************************)
\* C18: set(key, value) with value None or "" is a no-op: it adds no entry,
\* leaves any entry for that key and every other entry unchanged, and
\* returns the same BodyMap; set with any other value stores it so that
\* get, contains and len reflect it.
C18_SetFrame ==
    (pc = "body" /\ body_got.kind = "set") =>
        LET before == body_got.before
            k == body_got.k
            v == body_got.v
        IN  /\ body_got.ret = "self"
            /\ v \in {None_, PyStr(<<>>)} => body = before
            /\ v \notin {None_, PyStr(<<>>)} =>
                  /\ BodyMap_get(body, k) = v
                  /\ BodyMap_contains(body, k)
                  /\ BodyMap_len(body) =
                       BodyMap_len(before) + (IF BodyMap_contains(before, k) THEN 0 ELSE 1)
                  /\ \A k2 \in FieldNames \ {k} :
                        /\ BodyMap_get(body, k2) = BodyMap_get(before, k2)
                        /\ BodyMap_contains(body, k2) = BodyMap_contains(before, k2)

C18_Witness ==
    /\ pc = "body" /\ body_got.kind = "set"
    /\ body_got.v = PyStr(<<>>)
    /\ BodyMap_contains(body_got.before, body_got.k)
    /\ BodyMap_len(body) = 2
    /\ body = body_got.before

\* the other half of C18's case: a falsy value that is neither None nor ""
\* is stored
C18_StoredCase ==
    /\ pc = "body" /\ body_got.kind = "set"
    /\ body_got.v = PyInt(0)
    /\ ~BodyMap_contains(body_got.before, body_got.k)
    /\ BodyMap_get(body, body_got.k) = PyInt(0)
    /\ BodyMap_len(body) = 2

\* C19: for every BodyMap content, encode_wechat_sign_params and
\* encode_alipay_sign_params return the canonical string sign_params
\* builds from the same entries: ascending by key, name=value joined with
\* &, no None or empty values, no entry for the sign field.
C19_EncodeIsCanonical ==
    pc = "body" =>
        /\ BodyMap_encode_wechat_sign_params(body) = ParamStr(BodyMap_items(body))
        /\ BodyMap_encode_alipay_sign_params(body) = ParamStr(BodyMap_items(body))

\* the part of C19 the code satisfies: a BodyMap that holds no sign entry
C19_WithoutSignEntry ==
    (pc = "body" /\ ~(BodyMap_contains(body, S_sign) /\ HasValue(BodyMap_get(body, S_sign)))) =>
        /\ BodyMap_encode_wechat_sign_params(body) = ParamStr(BodyMap_items(body))
        /\ BodyMap_encode_alipay_sign_params(body) = ParamStr(BodyMap_items(body))

(***************************************************************************)
(* _do_request and the response signature (checked under SpecDoRequest).   *)
(***************************************************************************)
NextDoRequest == DoRequest \/ CloseOrder \/ Refund \/ EnterMethod
SpecDoRequest == InitDoRequest /\ [][NextDoRequest]_vars

\* C21: _do_request of AlipayClient and of WechatClient never returns a
\* ResponseData with success=True for a provider response whose signature
\* check (_verify_response) returned False.
C21_NoSuccessOnFailedCheck ==
    (pc = "responded" /\ resp = FALSE_)
        => ~(dr.kind = "ret" /\ dr.val.success)

\* the check of the response's signature has no effect on the outcome: a
\* response that passed and one that failed are answered alike
C21_FailedCheckAnsweredAsPassed ==
    (pc = "responded" /\ resp = FALSE_ /\ http_resp.t = "body")
        => \A c \in Creds :
              LET r == IF client = "AlipayClient"
                       THEN AlipayClient_do_request(inst, key, c, params, http_resp)
                       ELSE WechatClient_do_request(inst, key, params, http_resp)
              IN  r.verdict = TRUE_ => r.out = dr

\* the call of an interface method is over
C22_Completed == pc \in {"close_order", "refund"} /\ frame = NoCall

\* C22: the interface methods WechatClient.close_order(order_no) and
\* WechatClient.refund(order_no, refund_amount, ...) complete by issuing the
\* corresponding request (/pay/closeorder, /secapi/pay/refund) and returning
\* its ResponseData, without raising (but for the SignError of a missing
\* api_key) and without calling themselves.
C22_InterfaceMethodsIssueRequest ==
    /\ C22_Completed
          => /\ dr.kind = "raise" => dr.exc = "SignError"
             /\ dr.kind = "ret" =>
                   \E i \in 1..Len(calls) :
                      calls[i] = RequestEvent(IF pc = "close_order"
                                              THEN "/pay/closeorder"
                                              ELSE "/secapi/pay/refund")
    /\ (pc \in {"close_order", "refund"} /\ frame # NoCall /\ calls # <<>>)
          => Resolve(WechatClientMethods, frame.name).line # calls[Len(calls)].line

\* what the interface calls do: the name resolves to the interface
\* definition, whose body calls the same definition with keyword arguments
\* that do not fit its parameters; TypeError is raised and no request is
\* issued
C22_InterfaceCallsRaiseTypeError ==
    /\ C22_Completed
          => /\ dr = Raise("TypeError", None_)
             /\ calls = <<CallEvent(Resolve(WechatClientMethods, pc))>>
             /\ Resolve(WechatClientMethods, pc).body \in {"iface_close_order", "iface_refund"}
             /\ http_resp = NoCall
    /\ (pc \in {"close_order", "refund"} /\ frame # NoCall /\ calls # <<>>)
          => Resolve(WechatClientMethods, frame.name).line = calls[1].line

(***************************************************************************)
(* HttpClient.request (checked under SpecHttp).                            *)
(***************************************************************************)
C23_Retryable(o) == o.t \in {"Timeout", "ConnectionError"}

C23_ExhaustedCase ==
    /\ pc = "http" /\ hc.max_retries > 0
    /\ Len(hc.log) = hc.max_retries + 1
    /\ hc.log[Len(hc.log)] = SessionConnectionError
    /\ hc.out = Raise("NetworkError", None_)

(***************************************************************************)
(* RateLimiter (checked under SpecLimiter).                                *)
(***************************************************************************)
\* the times of the calls of key k answered True, oldest first
RECURSIVE C24_AllowedTimes(_, _)
C24_AllowedTimes(log, k) ==
    IF log = <<>> THEN <<>>
    ELSE IF log[1].key = k /\ log[1].answer
    THEN <<log[1].time>> \o C24_AllowedTimes(Tail(log), k)
    ELSE C24_AllowedTimes(Tail(log), k)

\* C24: for every key and every sequence of is_allowed calls issued one at
\* a time, the number of calls answered True whose times lie within any
\* time span shorter than window never exceeds max_requests, and a call
\* answered False is not recorded against the key: the times recorded for
\* a key are the latest times of its calls answered True.
C24_SlidingWindow ==
    pc = "limiter" =>
        \A k \in LimiterKeys :
            LET times == C24_AllowedTimes(mw_log, k)
                n == Len(times)
                recorded == IF HasKey(limiter.requests, k)
                            THEN Lookup(limiter.requests, k) ELSE <<>>
            IN  /\ \A i \in 1..n :
                      Cardinality({j \in 1..n :
                                      /\ times[i] <= times[j]
                                      /\ times[j] - times[i] < limiter.window})
                          <= limiter.max_requests
                /\ Len(recorded) <= n
                /\ recorded = SubSeq(times, n - Len(recorded) + 1, n)

\* a call refused within the window, and a later call of the same key
\* allowed again once the window had passed
C24_Witness ==
    /\ pc = "limiter"
    /\ \E i \in 1..Len(mw_log) : \E j \in 1..Len(mw_log) :
          /\ i < j
          /\ mw_log[i].key = mw_log[j].key
          /\ ~mw_log[i].answer
          /\ mw_log[j].answer
          /\ \E h \in 1..(i - 1) : mw_log[h].key = mw_log[i].key /\ mw_log[h].answer

(***************************************************************************)
(* MiddlewareChain (checked under SpecChain).                              *)
(***************************************************************************)
\* the positions (order of addition) of the middlewares a call entered
C25_Entered(rec) ==
    LET isenter(ev) == ev.e = "enter"
        es == SelectSeq(rec.events, isenter)
    IN  [i \in 1..Len(es) |-> es[i].pos]

C25_Rejected(rec) == \E i \in 1..Len(rec.events) : rec.events[i].e = "reject"
C25_FuncRan(rec) == \E i \in 1..Len(rec.events) : rec.events[i].e = "func"

\* C25: MiddlewareChain.apply wraps the function so that the middleware
\* added first runs outermost: on each call the middlewares take effect in
\* the order they were added, and when one of them rejects the call no
\* later middleware and not the wrapped function runs.
C25_AddedFirstRunsOutermost ==
    pc = "chain" =>
        \A c \in 1..Len(mw_log) :
            LET rec == mw_log[c]
                entered == C25_Entered(rec)
                m == Len(entered)
            IN  /\ entered = [i \in 1..m |-> i]
                /\ m <= Len(rec.chain)
                /\ \A i \in 1..m : \E j \in 1..Len(rec.events) :
                      rec.events[j] = EnterEvent(Middleware(rec.chain[i], i))
                /\ C25_Rejected(rec) =>
                      /\ ~C25_FuncRan(rec)
                      /\ \E j \in 1..Len(rec.events) :
                            /\ rec.events[j] = RejectEvent(Middleware(rec.chain[m], m))
                            /\ \A h \in (j + 1)..Len(rec.events) :
                                  rec.events[h].e = "log_response"
                /\ ~C25_Rejected(rec) =>
                      /\ m = Len(rec.chain)
                      /\ C25_FuncRan(rec)

\* a call rejected by the second of three middlewares, the first being of
\* another class
C25_Witness ==
    /\ pc = "chain"
    /\ \E c \in 1..Len(mw_log) :
          /\ Len(mw_log[c].chain) = 3
          /\ mw_log[c].chain[1] # mw_log[c].chain[2]
          /\ C25_Rejected(mw_log[c])
          /\ C25_Entered(mw_log[c]) = <<1, 2>>

\* a call that went through three middlewares of different classes
C25_PassedCase ==
    /\ pc = "chain"
    /\ \E c \in 1..Len(mw_log) :
          /\ Len(mw_log[c].chain) = 3
          /\ Cardinality({mw_log[c].chain[i] : i \in 1..3}) = 3
          /\ C25_FuncRan(mw_log[c])

\* the chain of a call holds AuthMiddleware and RateLimiter
C26_Both(rec) ==
    /\ \E i \in 1..Len(rec.chain) : rec.chain[i] = "AuthMiddleware"
    /\ \E i \in 1..Len(rec.chain) : rec.chain[i] = "RateLimiter"

\* C26: when AuthMiddleware and RateLimiter are both applied through
\* MiddlewareChain, every request is counted against the api_key it was
\* called with, never against the shared "default" key, whichever of the
\* two was added first.
C26_CountedAgainstApiKey ==
    pc = "chain" =>
        \A c \in 1..Len(mw_log) :
            LET rec == mw_log[c]
            IN  (C26_Both(rec) /\ HasKey(rec.kwargs, F_api_key))
                    => \A i \in 1..Len(rec.events) :
                          rec.events[i].e = "is_allowed"
                              => rec.events[i].key = Lookup(rec.kwargs, F_api_key).s

\* with the RateLimiter added before any AuthMiddleware the count is
\* against the api_key of the call
C26_LimiterFirst ==
    pc = "chain" =>
        \A c \in 1..Len(mw_log) :
            LET rec == mw_log[c]
                auth_before(p) == \E i \in 1..(p - 1) : rec.chain[i] = "AuthMiddleware"
            IN  HasKey(rec.kwargs, F_api_key)
                    => \A i \in 2..Len(rec.events) :
                          (rec.events[i].e = "is_allowed"
                             /\ ~auth_before(rec.events[i - 1].pos))
                              => rec.events[i].key = Lookup(rec.kwargs, F_api_key).s

\* with an AuthMiddleware added before the RateLimiter every request that
\* reaches the limiter is counted against "default"
C26_AuthFirstCountsDefault ==
    pc = "chain" =>
        \A c \in 1..Len(mw_log) :
            LET rec == mw_log[c]
                auth_before(p) == \E i \in 1..(p - 1) : rec.chain[i] = "AuthMiddleware"
            IN  \A i \in 2..Len(rec.events) :
                    (rec.events[i].e = "is_allowed" /\ auth_before(rec.events[i - 1].pos))
                        => rec.events[i].key = K_default

(***************************************************************************)
(* BaseApiHandler._execute_with_hooks (checked under SpecHooks).           *)
(***************************************************************************)
\* the ranks of the hooks the run called for an event, in the order called
C27_Ran(event) ==
    LET is(ev) == ev.e = "hook" /\ ev.event = event
        es == SelectSeq(hook_run.events, is)
    IN  [i \in 1..Len(es) |-> es[i].id]

\* C27: for every operation run through _execute_with_hooks, all
\* before_<operation> hooks run before the operation and all
\* after_<operation> hooks after it, each group in registration order; an
\* exception raised by a hook neither skips the remaining hooks nor changes
\* the returned response, and an exception raised by the operation yields a
\* server-error ApiResponse, after the after-hooks ran with success flag
\* False, instead of propagating.
C27_HooksAroundOperation ==
    (pc = "hooks" /\ hook_run # NoCall) =>
        LET ev == hook_run.events
            before == "before_" \o hook_run.operation
            after == "after_" \o hook_run.operation
            f == CHOOSE i \in 1..Len(ev) : ev[i] = OperationCall
        IN  /\ Cardinality({i \in 1..Len(ev) : ev[i] = OperationCall}) = 1
            /\ \A i \in 1..(f - 1) : ev[i].event = before /\ ev[i].flag = None_
            /\ \A i \in (f + 1)..Len(ev) :
                  /\ ev[i].event = after
                  /\ ev[i].flag = PyBool(hook_run.func # "raise")
            /\ \A i \in 1..Len(ev) : \A j \in 1..Len(ev) :
                  (i < j /\ i # f /\ j # f /\ ev[i].event = ev[j].event)
                      => ev[i].id < ev[j].id
            /\ Len(C27_Ran(before)) = f - 1
            /\ Len(C27_Ran(after)) = Len(ev) - f
            /\ \A event \in {before, after} :
                  LET hs == IF HasKey(hook_run.registered, event)
                            THEN Lookup(hook_run.registered, event) ELSE <<>>
                  IN  C27_Ran(event) = [i \in 1..Len(hs) |-> hs[i].id]
            /\ hook_run.out.kind = "ret"
            /\ hook_run.out.val =
                  CASE hook_run.func = "raise" -> ApiResponse_server_error("exception")
                    [] hook_run.func = "response" -> ApiResponse_success
                    [] OTHER -> None_

\* a failing operation between a raising before-hook followed by another
\* before-hook, and an after-hook
C27_Witness ==
    /\ pc = "hooks" /\ hook_run # NoCall
    /\ hook_run.func = "raise"
    /\ HasKey(hook_run.registered, "before_" \o hook_run.operation)
    /\ Len(Lookup(hook_run.registered, "before_" \o hook_run.operation)) = 2
    /\ Lookup(hook_run.registered, "before_" \o hook_run.operation)[1].raises
    /\ Len(hook_run.events) = 4

(***************************************************************************)
(* Strategy resolution at construction (checked under SpecCapture).        *)
(***************************************************************************)
\* the registry reduced to the strategy registered last for sign_type
C28_Latest == Upper(sign_type) :> LastRegistered(regs, sign_type, TRUE).val

C28_HandlerCase ==
    /\ pc = "ready"
    /\ client \in Handlers
    /\ call # NoSign /\ result # NoCall
    /\ call.out = Ret(PyBool(TRUE))
    /\ result = Ret(PyBool(FALSE))
    /\ inst # get_signer(signers, sign_type).val

(***************************************************************************)
(* BodyMap: what it returns and its two stores (checked under SpecBody).   *)
(***************************************************************************)
\* C29: after any sequence of BodyMap operations (set, update, remove,
\* filter_none, clear), no entry returned by items(), to_dict() or
\* to_json() (which serialises the entries of items()) has a value that is
\* None or the empty string.
C29_NoEmptyValueReturned ==
    pc = "body" =>
        /\ \A i \in 1..Len(BodyMap_items(body)) : HasValue(BodyMap_items(body)[i].v)
        /\ \A i \in 1..Len(BodyMap_to_dict(body)) : HasValue(BodyMap_to_dict(body)[i].v)

\* what holds instead: set never stores such a value, and right after
\* filter_none no entry has one
C29_AfterFilterNone ==
    (pc = "body" /\ body_got.kind \in {"filter_none", "clear"})
        => \A i \in 1..Len(BodyMap_items(body)) : HasValue(BodyMap_items(body)[i].v)

\* the key/value pairs of a store
C30_Pairs(d) == {<<d[i].k, d[i].v>> : i \in 1..Len(d)}

\* C30: for every BodyMap, however it was constructed (with or without
\* initial entries), and after any sequence of set, update, remove,
\* filter_none and clear, the inherited dict content and the internal
\* ordered store hold exactly the same key/value pairs, so key lookup by
\* membership or indexing agrees with get, contains, len and to_dict.
C30_StoresAgree ==
    pc = "body" =>
        /\ C30_Pairs(body.dict) = C30_Pairs(body.ordered)
        /\ \A k \in FieldNames \cup {S_sign} :
              /\ HasKey(body.dict, k) = BodyMap_contains(body, k)
              /\ HasKey(body.dict, k) => Lookup(body.dict, k) = BodyMap_get(body, k)
        /\ Len(body.dict) = BodyMap_len(body)

\* what holds instead: every pair of the ordered store is in the dict
C30_OrderedWithinDict ==
    pc = "body" => C30_Pairs(body.ordered) \subseteq C30_Pairs(body.dict)


====
